---- MODULE Spec2Model ----
(***************************************************************************)
(* VoiceDo: the Task Store (todos.js), the Link Store (links.js) and the   *)
(* Persistence Adapter (storage.js) as a state machine.                    *)
(*                                                                         *)
(* Strings the code inspects (task text, link text) are sequences of       *)
(* one-character strings, so that trim() and the scheme test are computed. *)
(* A handler is an operator from a world record (the module state of the   *)
(* page) to the world it leaves behind; an action applies one handler.     *)
(* The world's "effects" field is the ordered log of the calls the handler *)
(* made to Storage.set and to render, and "ret" names the return statement *)
(* the handler left through.                                               *)
(***************************************************************************)
EXTENDS Integers, Sequences, FiniteSets, TLC

VARIABLES
    todos,          \* Todos: let todos = []
    currentFilter,  \* Todos: 'all' | 'active' | 'completed' | 'overdue'
    currentSort,    \* Todos: 'newest' | 'oldest' | 'deadline' | 'priority'
    links,          \* Links: let links = []
    localStorage,   \* window.localStorage: key -> stored text, or absent
    todoList,       \* the todo elements built into #todo-list, by data-id
    linkList,       \* the link cards built into #link-list, by data-id
    now,            \* the wall clock, in ticks (Date.now())
    phase,          \* "loading" before DOMContentLoaded has run, then "ready";
                    \* "failed" / "linksFailed" when Todos.init / Links.init threw
    quotaExceeded,  \* whether localStorage.setItem throws (the quota is used up)
    call,           \* the handler that ran last, its return and its effect in records
    effects,        \* the Storage.set / render calls that handler made, in order
    speech,         \* SpeechModule, the recognizers it created and the callbacks made
    removing        \* the elements with class 'removing' and an animationend listener

vars == <<todos, currentFilter, currentSort, links, localStorage,
          todoList, linkList, now, phase, quotaExceeded, call, effects, speech,
          removing>>

----------------------------------------------------------------------------
(* Bounds of the model. *)

MaxRecords == 2     \* tasks and links held at once, both collections together
MaxSubs == 1        \* subtasks per task
MaxClock == 2       \* last tick of the clock
TicksPerDay == 2    \* clock ticks in one calendar day
MaxSessions == 2    \* SpeechRecognition instances created

\* The suffixes Math.random().toString(36).slice(2, 7) can produce: two of them.
Rands == {"k3x9q", "p0a7m"}

----------------------------------------------------------------------------
(* Values. *)

\* A missing, null or empty optional value, and a present one.
None == <<>>
Some(x) == <<x>>

Whitespace == {" "}

TODOS_KEY == "vt_todos"
LINKS_KEY == "vt_links"

Filters == {"all", "active", "completed", "overdue"}
Sorts == {"newest", "oldest", "deadline", "priority"}
Priorities == {"low", "medium", "high"}

RECURSIVE trimStart(_)
trimStart(s) ==
    IF s # <<>> /\ Head(s) \in Whitespace THEN trimStart(Tail(s)) ELSE s

RECURSIVE trimEnd(_)
trimEnd(s) ==
    IF s # <<>> /\ s[Len(s)] \in Whitespace
    THEN trimEnd(SubSeq(s, 1, Len(s) - 1))
    ELSE s

\* A trim that leaves the white space in place.
trim_Kept(s) == s

\* String.prototype.trim
trim(s) == trimEnd(trimStart(s))

\* A find that takes the first element whatever its id.
find_First(arr, id) == IF arr = <<>> THEN 0 ELSE 1

\* Array.prototype.find on an id: the index of the first match, 0 for undefined.
find(arr, id) ==
    IF \E i \in 1..Len(arr) : arr[i].id = id
    THEN CHOOSE i \in 1..Len(arr) :
            /\ arr[i].id = id
            /\ \A j \in 1..(i - 1) : arr[j].id # id
    ELSE 0

\* A filter that keeps every element.
filterOut_Nothing(arr, id) == arr

\* Array.prototype.filter((x) => x.id !== id)
filterOut(arr, id) ==
    LET Keep(x) == x.id # id IN SelectSeq(arr, Keep)

\* An unshift that puts the element at the end.
unshift_AtEnd(arr, x) == Append(arr, x)

\* Array.prototype.unshift
unshift(arr, x) == <<x>> \o arr

\* Array.prototype.push
push(arr, x) == Append(arr, x)

\* `${prefix}_${Date.now()}_${Math.random().toString(36).slice(2, 7)}`
genId(prefix, t, rnd) == <<prefix, t, rnd>>

----------------------------------------------------------------------------
(* Persistence Adapter (storage.js). A stored text is either the JSON text *)
(* of a value or text that JSON.parse rejects.                             *)

Absent == <<"absent">>
Corrupt == <<"text", "{not json">>

\* The JSON value JSON.stringify writes for the property `key` of a record:
\* a string, number, boolean, null, array or object. The key "" is the
\* collection itself, an array of records, and the key "{}" one record of an
\* array. A deadline is null or the date as a string.
StringKeys == {"id", "text", "priority", "url", "description"}
RECURSIVE serialize(_, _)
serialize(key, v) ==
    CASE key \in StringKeys -> [type |-> "string", value |-> v]
      [] key = "createdAt" -> [type |-> "number", value |-> v]
      [] key = "completed" -> [type |-> "boolean", value |-> v]
      [] key = "deadline" ->
            IF v = None THEN [type |-> "null"]
            ELSE [type |-> "string", value |-> v[1]]
      [] key = "categories" ->
            [type |-> "array",
             value |-> [i \in 1..Len(v) |-> [type |-> "string", value |-> v[i]]]]
      [] key \in {"", "subtasks"} ->
            [type |-> "array", value |-> [i \in 1..Len(v) |-> serialize("{}", v[i])]]
      [] key = "{}" ->
            [type |-> "object", value |-> [f \in DOMAIN v |-> serialize(f, v[f])]]

\* The value JSON.parse builds from a JSON value.
RECURSIVE revive(_, _)
revive(key, node) ==
    CASE node.type = "null" -> None
      [] node.type \in {"number", "boolean"} -> node.value
      [] node.type = "string" ->
            IF key = "deadline" THEN Some(node.value) ELSE node.value
      [] node.type = "array" ->
            [i \in 1..Len(node.value) |-> revive("{}", node.value[i])]
      [] node.type = "object" ->
            [f \in DOMAIN node.value |-> revive(f, node.value[f])]

\* JSON.stringify: the JSON text of a collection
JSON_stringify(value) == <<"json", serialize("", value)>>

\* Whether JSON.parse(text) throws
JSON_throws(text) == text[1] # "json"

\* JSON.parse of a text it accepts
JSON_parse(text) == revive("", text[2])

\* Whether what Storage.get(key, []) returns is an array: the default, or the
\* value of a JSON text of an array. JSON.parse also accepts the texts of
\* null, of a number, of a string and of an object.
returnsArray(ls, key) ==
    IF ls[key] = Absent THEN TRUE
    ELSE IF JSON_throws(ls[key]) THEN TRUE
    ELSE ls[key][2].type = "array"

Storage_get(ls, key, defaultValue) ==
    IF ls[key] = Absent THEN defaultValue
    ELSE IF JSON_throws(ls[key]) THEN defaultValue
    ELSE JSON_parse(ls[key])

\* A set that hands setItem the value itself: what is stored is the text
\* String(value), which is no JSON.
Storage_set_Raw(ls, key, value, full) ==
    IF full THEN ls ELSE [ls EXCEPT ![key] = <<"text", "[object Object]">>]

\* A set that clears the key when setItem throws.
Storage_set_ClearsOnFailure(ls, key, value, full) ==
    IF full THEN [ls EXCEPT ![key] = Absent]
    ELSE [ls EXCEPT ![key] = JSON_stringify(value)]

\* full = TRUE: localStorage.setItem throws (quota exceeded); set catches it.
Storage_set(ls, key, value, full) ==
    IF full THEN ls ELSE [ls EXCEPT ![key] = JSON_stringify(value)]

----------------------------------------------------------------------------
(* The world a handler runs in. *)

World ==
    [todos |-> todos, currentFilter |-> currentFilter, currentSort |-> currentSort,
     links |-> links, localStorage |-> localStorage,
     todoList |-> todoList, linkList |-> linkList,
     now |-> now, quotaExceeded |-> quotaExceeded,
     removing |-> removing,
     effects |-> <<>>, ret |-> "done"]

\* The logical records of a world: tasks, their subtasks, and links.
RECURSIVE countSubtasks(_)
countSubtasks(list) ==
    IF list = <<>> THEN 0 ELSE Len(Head(list).subtasks) + countSubtasks(Tail(list))
records(w) == Len(w.todos) + countSubtasks(w.todos) + Len(w.links)

\* The handler `op` ran to completion and left the world w. `call` keeps its
\* name, the return it left through and by how many records the collections
\* grew or shrank.
Ran(op, w) ==
    /\ todos' = w.todos
    /\ currentFilter' = w.currentFilter
    /\ currentSort' = w.currentSort
    /\ links' = w.links
    /\ localStorage' = w.localStorage
    /\ todoList' = w.todoList
    /\ linkList' = w.linkList
    /\ removing' = w.removing
    /\ call' = [op |-> op, ret |-> w.ret, delta |-> records(w) - records(World)]
    /\ effects' = w.effects

----------------------------------------------------------------------------
(* Task Store (todos.js): dates. A deadline is a calendar day; the clock   *)
(* counts ticks, TicksPerDay of them to a day.                             *)

\* new Date(dateStr + 'T00:00:00'): the tick of that day's local midnight
parseDeadline(day) == day * TicksPerDay

\* new Date(now.getFullYear(), now.getMonth(), now.getDate())
todayMidnight(t) == (t \div TicksPerDay) * TicksPerDay

\* An isOverdue that does not look at `completed`.
isOverdue_AnyState(todo, t) ==
    IF todo.deadline = None THEN FALSE
    ELSE todo.deadline[1] * TicksPerDay < (t \div TicksPerDay) * TicksPerDay

isOverdue(todo, t) ==
    IF todo.deadline = None \/ todo.completed THEN FALSE
    ELSE parseDeadline(todo.deadline[1]) < todayMidnight(t)

\* tomorrow.setDate(today.getDate() + 1): the midnight that follows
tomorrowMidnight(t) == todayMidnight(t) + TicksPerDay

\* An isWarning that starts the day after today.
isWarning_FromTomorrow(todo, t) ==
    IF todo.deadline = None \/ todo.completed THEN FALSE
    ELSE /\ parseDeadline(todo.deadline[1]) > todayMidnight(t)
         /\ parseDeadline(todo.deadline[1]) <= tomorrowMidnight(t)

isWarning(todo, t) ==
    IF todo.deadline = None \/ todo.completed THEN FALSE
    ELSE /\ parseDeadline(todo.deadline[1]) >= todayMidnight(t)
         /\ parseDeadline(todo.deadline[1]) <= tomorrowMidnight(t)

\* A priorityValue that ranks low above medium.
priorityValue_LowAboveMedium(p) == IF p = "high" THEN 3 ELSE IF p = "low" THEN 2 ELSE 1

priorityValue(p) == IF p = "high" THEN 3 ELSE IF p = "low" THEN 1 ELSE 2

----------------------------------------------------------------------------
(* Task Store: the derived view. *)

\* The comparators of getVisible. A deadline that is missing compares as
\* Infinity; Infinity - Infinity is NaN, which sort takes for +0.
compare(sortKey, a, b) ==
    CASE sortKey = "oldest" -> a.createdAt - b.createdAt
      [] sortKey = "deadline" ->
            IF a.deadline = None /\ b.deadline = None THEN 0
            ELSE IF a.deadline = None THEN 1
            ELSE IF b.deadline = None THEN -1
            ELSE parseDeadline(a.deadline[1]) - parseDeadline(b.deadline[1])
      [] sortKey = "priority" -> priorityValue(b.priority) - priorityValue(a.priority)
      [] OTHER -> b.createdAt - a.createdAt

\* x put into the sorted list after every element that does not sort after it.
insertSorted(sorted, x, sortKey) ==
    LET after == {i \in 1..Len(sorted) : compare(sortKey, sorted[i], x) > 0}
        k == IF after = {} THEN Len(sorted) + 1
             ELSE CHOOSE i \in after : \A j \in after : i <= j
    IN  SubSeq(sorted, 1, k - 1) \o <<x>> \o SubSeq(sorted, k, Len(sorted))

RECURSIVE sortFrom(_, _, _)
sortFrom(sorted, rest, sortKey) ==
    IF rest = <<>> THEN sorted
    ELSE sortFrom(insertSorted(sorted, Head(rest), sortKey), Tail(rest), sortKey)

\* Array.prototype.sort with a comparator: a stable sort
sort(list, sortKey) == sortFrom(<<>>, list, sortKey)

\* The filter switch of getVisible
applyFilter(list, filter, t) ==
    LET Active(x) == ~x.completed
        Completed(x) == x.completed
        Overdue(x) == isOverdue(x, t)
    IN  CASE filter = "active" -> SelectSeq(list, Active)
          [] filter = "completed" -> SelectSeq(list, Completed)
          [] filter = "overdue" -> SelectSeq(list, Overdue)
          [] OTHER -> list

\* A getVisible without the copy: with no filter, sort reorders `todos` itself.
getVisible_InPlace(w) ==
    LET list == sort(applyFilter(w.todos, w.currentFilter, w.now), w.currentSort)
    IN  [list |-> list, todos |-> IF w.currentFilter = "all" THEN list ELSE w.todos]

\* getVisible: `list` is a copy of `todos`, filtered and then sorted in place.
\* The result names the list returned and the `todos` array left behind.
getVisible(w) ==
    LET copy == w.todos
        list == sort(applyFilter(copy, w.currentFilter, w.now), w.currentSort)
    IN  [list |-> list, todos |-> w.todos]

----------------------------------------------------------------------------
(* Task Store: persistence and rendering. *)

\* The label render groups an element under: 'Today', 'Yesterday' or the
\* date, one label for each calendar day of createdAt.
dateLabel(ts) == ts \div TicksPerDay

\* The Map of render: elements grouped by label, the groups in the order
\* their label first appears.
RECURSIVE groupByLabel(_)
groupByLabel(list) ==
    IF list = <<>> THEN <<>>
    ELSE LET Same(x) == dateLabel(x.createdAt) = dateLabel(Head(list).createdAt)
             Other(x) == ~Same(x)
         IN  SelectSeq(list, Same) \o groupByLabel(SelectSeq(list, Other))

\* The data-id of each element of a list, in order.
idsOf(list) == [i \in 1..Len(list) |-> list[i].id]

\* A save that does not reach the store.
save_MemoryOnly(w) == [w EXCEPT !.effects = Append(@, <<"set", TODOS_KEY>>)]

\* Todos.save
save(w) ==
    [w EXCEPT !.localStorage = Storage_set(@, TODOS_KEY, w.todos, w.quotaExceeded),
              !.effects = Append(@, <<"set", TODOS_KEY>>)]

\* Todos.render
\* container.innerHTML = '': the elements of the container leave the document,
\* and with them the animations that run on them; render then builds new
\* elements for the records of the collection. The elements of records that
\* are gone are garbage.
discard(pending, key, collection) ==
    {IF e.key = key THEN [e EXCEPT !.attached = FALSE] ELSE e :
        e \in {p \in pending : p.key # key \/ find(collection, p.id) # 0}}

render(w) ==
    LET visible == getVisible(w)
    IN  [w EXCEPT !.todos = visible.todos,
                  !.todoList = idsOf(groupByLabel(visible.list)),
                  !.removing = discard(@, TODOS_KEY, visible.todos),
                  !.effects = Append(@, <<"render", TODOS_KEY>>)]

\* A migrate whose defaults come after the spread and win over the stored fields.
migrate_DefaultsLast(t) ==
    LET defaults == [deadline |-> None, priority |-> "medium",
                     subtasks |-> <<>>, categories |-> <<>>]
    IN  [f \in DOMAIN defaults \cup DOMAIN t |->
            IF f \in DOMAIN defaults THEN defaults[f] ELSE t[f]]

\* The defaults load gives a stored record for the fields it lacks.
migrate(t) ==
    LET defaults == [deadline |-> None, priority |-> "medium",
                     subtasks |-> <<>>, categories |-> <<>>]
    IN  [f \in DOMAIN defaults \cup DOMAIN t |->
            IF f \in DOMAIN t THEN t[f] ELSE defaults[f]]

\* Todos.load
\* raw.map throws a TypeError when raw is not an array, before todos is assigned.
load(w) ==
    LET raw == Storage_get(w.localStorage, TODOS_KEY, <<>>)
    IN  IF ~returnsArray(w.localStorage, TODOS_KEY) THEN [w EXCEPT !.ret = "threw"]
        ELSE [w EXCEPT !.todos = [i \in 1..Len(raw) |-> migrate(raw[i])]]

----------------------------------------------------------------------------
(* Task Store: the operations. w.now is the value of Date.now() during the *)
(* call and rnd the suffix Math.random() gives genId.                      *)

add(w, text, opts, rnd) ==
    LET trimmed == trim(text)
        todo == [id |-> genId("todo", w.now, rnd),
                 text |-> trimmed,
                 completed |-> FALSE,
                 createdAt |-> w.now,
                 deadline |-> IF opts.deadline # None THEN opts.deadline ELSE None,
                 priority |-> IF opts.priority # None THEN opts.priority[1] ELSE "medium",
                 subtasks |-> <<>>,
                 categories |-> IF opts.categories # None THEN opts.categories[1] ELSE <<>>]
    IN  IF trimmed = <<>> THEN [w EXCEPT !.ret = "empty"]
        ELSE render(save([w EXCEPT !.todos = unshift(@, todo)]))

\* A toggle that only ever completes.
toggle_Completes(w, id) ==
    LET i == find(w.todos, id)
    IN  IF i = 0 THEN [w EXCEPT !.ret = "miss"]
        ELSE render(save([w EXCEPT !.todos[i].completed = TRUE]))

toggle(w, id) ==
    LET i == find(w.todos, id)
    IN  IF i = 0 THEN [w EXCEPT !.ret = "miss"]
        ELSE render(save([w EXCEPT !.todos[i].completed = ~@]))

\* An update that also reopens the task it renames.
update_Reopens(w, id, newText) ==
    LET trimmed == trim(newText)
        i == find(w.todos, id)
    IN  IF trimmed = <<>> THEN [w EXCEPT !.ret = "empty"]
        ELSE IF i = 0 THEN [w EXCEPT !.ret = "miss"]
        ELSE render(save([w EXCEPT !.todos[i].text = trimmed,
                                   !.todos[i].completed = FALSE]))

update(w, id, newText) ==
    LET trimmed == trim(newText)
        i == find(w.todos, id)
    IN  IF trimmed = <<>> THEN [w EXCEPT !.ret = "empty"]
        ELSE IF i = 0 THEN [w EXCEPT !.ret = "miss"]
        ELSE render(save([w EXCEPT !.todos[i].text = trimmed]))

remove(w, id) ==
    render(save([w EXCEPT !.todos = filterOut(@, id)]))

addSubtask(w, todoId, text, rnd) ==
    LET trimmed == trim(text)
        i == find(w.todos, todoId)
        sub == [id |-> genId("sub", w.now, rnd), text |-> trimmed, completed |-> FALSE]
    IN  IF trimmed = <<>> THEN [w EXCEPT !.ret = "empty"]
        ELSE IF i = 0 THEN [w EXCEPT !.ret = "miss"]
        ELSE render(save([w EXCEPT !.todos[i].subtasks = push(@, sub)]))

toggleSubtask(w, todoId, subId) ==
    LET i == find(w.todos, todoId)
        j == IF i = 0 THEN 0 ELSE find(w.todos[i].subtasks, subId)
    IN  IF i = 0 THEN [w EXCEPT !.ret = "miss"]
        ELSE IF j = 0 THEN [w EXCEPT !.ret = "miss"]
        ELSE render(save([w EXCEPT !.todos[i].subtasks[j].completed = ~@]))

removeSubtask(w, todoId, subId) ==
    LET i == find(w.todos, todoId)
    IN  IF i = 0 THEN [w EXCEPT !.ret = "miss"]
        ELSE render(save([w EXCEPT !.todos[i].subtasks = filterOut(@, subId)]))

\* The click handler of a .filter-btn
setFilter(w, filter) == render([w EXCEPT !.currentFilter = filter])

\* The change handler of #sort-select
setSort(w, sortKey) == render([w EXCEPT !.currentSort = sortKey])

\* Todos.init: load(), render(), then the wiring of the form, the buttons and
\* the mic. A throw in load leaves init at once.
Todos_init(w) ==
    LET loaded == load(w)
    IN  IF loaded.ret = "threw" THEN loaded ELSE render(loaded)

----------------------------------------------------------------------------
(* Link Store (links.js): the text of a URL.                               *)

LowerCase ==
    <<"a", "b", "c", "d", "e", "f", "g", "h", "i", "j", "k", "l", "m",
      "n", "o", "p", "q", "r", "s", "t", "u", "v", "w", "x", "y", "z">>
UpperCase ==
    <<"A", "B", "C", "D", "E", "F", "G", "H", "I", "J", "K", "L", "M",
      "N", "O", "P", "Q", "R", "S", "T", "U", "V", "W", "X", "Y", "Z">>
Digits == {"0", "1", "2", "3", "4", "5", "6", "7", "8", "9"}

letterIndex(alphabet, c) ==
    IF \E i \in 1..Len(alphabet) : alphabet[i] = c
    THEN CHOOSE i \in 1..Len(alphabet) : alphabet[i] = c
    ELSE 0

toLowerChar(c) ==
    IF letterIndex(UpperCase, c) = 0 THEN c ELSE LowerCase[letterIndex(UpperCase, c)]
toUpperChar(c) ==
    IF letterIndex(LowerCase, c) = 0 THEN c ELSE UpperCase[letterIndex(LowerCase, c)]

toLowerCase(s) == [i \in 1..Len(s) |-> toLowerChar(s[i])]

startsWith(s, prefix) ==
    Len(s) >= Len(prefix) /\ SubSeq(s, 1, Len(prefix)) = prefix

HTTP == <<"h", "t", "t", "p", ":", "/", "/">>
HTTPS == <<"h", "t", "t", "p", "s", ":", "/", "/">>

\* The scheme test without the i flag.
hasScheme_CaseSensitive(url) == startsWith(url, HTTP) \/ startsWith(url, HTTPS)

\* /^https?:\/\//i.test(url)
hasScheme(url) ==
    startsWith(toLowerCase(url), HTTP) \/ startsWith(toLowerCase(url), HTTPS)

\* The index of the first character of s that is in `stops`, Len(s) + 1 if none.
firstOf(s, stops) ==
    IF \E i \in 1..Len(s) : s[i] \in stops
    THEN CHOOSE i \in 1..Len(s) : s[i] \in stops /\ \A j \in 1..(i - 1) : s[j] \notin stops
    ELSE Len(s) + 1

\* String.prototype.split on one character
RECURSIVE split(_, _)
split(s, sep) ==
    LET k == firstOf(s, {sep})
    IN  IF k > Len(s) THEN <<s>>
        ELSE <<SubSeq(s, 1, k - 1)>> \o split(SubSeq(s, k + 1, Len(s)), sep)

\* The percent-encoding the URL parser gives a path: a space becomes %20.
RECURSIVE encodePath(_)
encodePath(s) ==
    IF s = <<>> THEN <<>>
    ELSE (IF Head(s) = " " THEN <<"%", "2", "0">> ELSE <<Head(s)>>) \o encodePath(Tail(s))

\* The characters a host may not hold (userinfo and ports are not modelled).
ForbiddenHost == {" ", "<", ">", "^", "|", "%", "[", "]"}

\* s from its first character that is not in `skipped`.
dropWhile(s, skipped) ==
    LET rest == {i \in 1..Len(s) : s[i] \notin skipped}
    IN  IF rest = {} THEN <<>>
        ELSE SubSeq(s, CHOOSE i \in rest : \A j \in rest : i <= j, Len(s))

\* new URL(url), for the URLs of the model: scheme "://" host, then a path
\* up to a '?' or '#'. Slashes that follow the scheme's own are skipped. It
\* throws when the text has no http(s) scheme, when the host is empty and when
\* the host holds a forbidden character; the host is lower-cased.
parseURL(url) ==
    LET rest == dropWhile(IF startsWith(toLowerCase(url), HTTPS)
                          THEN SubSeq(url, 9, Len(url))
                          ELSE SubSeq(url, 8, Len(url)), {"/", "\\"})
        hostEnd == firstOf(rest, {"/", "\\", "?", "#"})
        host == SubSeq(rest, 1, hostEnd - 1)
        tail == SubSeq(rest, hostEnd, Len(rest))
        path == SubSeq(tail, 1, firstOf(tail, {"?", "#"}) - 1)
    IN  IF ~hasScheme(url) \/ host = <<>> \/ \E i \in 1..Len(host) : host[i] \in ForbiddenHost
        THEN [ok |-> FALSE, hostname |-> <<>>, pathname |-> <<>>]
        ELSE [ok |-> TRUE, hostname |-> toLowerCase(host),
              pathname |-> IF path = <<>> THEN <<"/">> ELSE encodePath(path)]

\* s.replace(/[-_]/g, ' ').trim()
cleanSegment(s) ==
    trim([i \in 1..Len(s) |-> IF s[i] \in {"-", "_"} THEN " " ELSE s[i]])

\* s.charAt(0).toUpperCase() + s.slice(1)
cap(s) == IF s = <<>> THEN s ELSE <<toUpperChar(Head(s))>> \o Tail(s)

\* !/^\d+$/.test(p) && p.length > 1
meaningful(p) == Len(p) > 1 /\ \E i \in 1..Len(p) : p[i] \notin Digits

\* The em dash the description joins its two halves with.
EmDash == "--"

\* Links.autoDescribe
autoDescribe(url) ==
    LET parsed == parseURL(url)
        hostname == IF startsWith(parsed.hostname, <<"w", "w", "w", ".">>)
                    THEN SubSeq(parsed.hostname, 5, Len(parsed.hostname))
                    ELSE parsed.hostname
        segments == split(parsed.pathname, "/")
        NonEmpty(p) == p # <<>>
        parts == SelectSeq([i \in 1..Len(segments) |-> cleanSegment(segments[i])], NonEmpty)
        hits == {i \in 1..Len(parts) : meaningful(parts[i])}
        last == CHOOSE i \in hits : \A j \in hits : j <= i
    IN  IF ~parsed.ok THEN url
        ELSE IF parts = <<>> THEN cap(hostname)
        ELSE IF hits # {} THEN cap(parts[last]) \o <<" ", EmDash, " ">> \o hostname
        ELSE cap(hostname)

----------------------------------------------------------------------------
(* Link Store: persistence, rendering and the operations. *)

\* Links.save
Links_save(w) ==
    [w EXCEPT !.localStorage = Storage_set(@, LINKS_KEY, w.links, w.quotaExceeded),
              !.effects = Append(@, <<"set", LINKS_KEY>>)]

\* Links.render
Links_render(w) ==
    [w EXCEPT !.linkList = idsOf(groupByLabel(w.links)),
              !.removing = discard(@, LINKS_KEY, w.links),
              !.effects = Append(@, <<"render", LINKS_KEY>>)]

\* Links.load
Links_load(w) == [w EXCEPT !.links = Storage_get(w.localStorage, LINKS_KEY, <<>>)]

Links_add(w, rawUrl, rnd) ==
    LET trimmed == trim(rawUrl)
        url == IF hasScheme(trimmed) THEN trimmed ELSE HTTPS \o trimmed
        link == [id |-> genId("link", w.now, rnd),
                 url |-> url,
                 description |-> autoDescribe(url),
                 createdAt |-> w.now]
    IN  IF trimmed = <<>> THEN [w EXCEPT !.ret = "empty"]
        ELSE Links_render(Links_save([w EXCEPT !.links = unshift(@, link)]))

\* An updateDesc that takes the trimmed text also when it is empty.
Links_updateDesc_Emptied(w, id, newDesc) ==
    LET i == find(w.links, id)
    IN  IF i = 0 THEN [w EXCEPT !.ret = "miss"]
        ELSE Links_save([w EXCEPT !.links[i].description = trim(newDesc)])

Links_updateDesc(w, id, newDesc) ==
    LET i == find(w.links, id)
    IN  IF i = 0 THEN [w EXCEPT !.ret = "miss"]
        ELSE Links_save([w EXCEPT !.links[i].description =
                            IF trim(newDesc) # <<>> THEN trim(newDesc) ELSE @])

Links_remove(w, id) ==
    Links_render(Links_save([w EXCEPT !.links = filterOut(@, id)]))

\* \w
isWord(c) ==
    \/ letterIndex(LowerCase, c) # 0
    \/ letterIndex(UpperCase, c) # 0
    \/ c \in Digits
    \/ c = "_"

\* (com|org|net|edu|gov|io|co|uk|dev|app|ai)
TLDs ==
    {<<"c", "o", "m">>,
     <<"o", "r", "g">>,
     <<"n", "e", "t">>,
     <<"e", "d", "u">>,
     <<"g", "o", "v">>,
     <<"i", "o">>,
     <<"c", "o">>,
     <<"u", "k">>,
     <<"d", "e", "v">>,
     <<"a", "p", "p">>,
     <<"a", "i">>}

\* A looksLikeUrl whose pattern does not end in \b.
looksLikeUrl_NoBoundary(s) ==
    \E i \in 2..Len(s) :
        /\ s[i] = "." /\ isWord(s[i - 1])
        /\ \E tld \in TLDs :
              /\ i + Len(tld) <= Len(s)
              /\ toLowerCase(SubSeq(s, i + 1, i + Len(tld))) = tld

\* /\b\w+\.(com|...|ai)\b/i.test(transcript): a '.' after a word character
\* and before a TLD of the list that ends the text or a word.
looksLikeUrl(s) ==
    \E i \in 2..Len(s) :
        /\ s[i] = "." /\ isWord(s[i - 1])
        /\ \E tld \in TLDs :
              LET e == i + Len(tld)
              IN  /\ e <= Len(s)
                  /\ toLowerCase(SubSeq(s, i + 1, e)) = tld
                  /\ (e = Len(s) \/ ~isWord(s[e + 1]))

\* transcript.replace(/\s+/g, '')
removeWhitespace(s) == SelectSeq(s, LAMBDA c : c \notin Whitespace)

\* s.replace(/dot/gi, '.')
RECURSIVE replaceDot(_)
replaceDot(s) ==
    IF s = <<>> THEN <<>>
    ELSE IF Len(s) >= 3 /\ toLowerCase(SubSeq(s, 1, 3)) = <<"d", "o", "t">>
    THEN <<".">> \o replaceDot(SubSeq(s, 4, Len(s)))
    ELSE <<Head(s)>> \o replaceDot(Tail(s))

\* The characters encodeURIComponent keeps, and the escapes of the others
\* that the texts of the model hold.
Unreserved == {"-", "_", ".", "!", "~", "*", "'", "(", ")"}
escape(c) ==
    CASE c = " " -> <<"%", "2", "0">>
      [] c = "/" -> <<"%", "2", "F">>
      [] c = ":" -> <<"%", "3", "A">>
      [] c = "<" -> <<"%", "3", "C">>
      [] c = ">" -> <<"%", "3", "E">>
      [] c = "?" -> <<"%", "3", "F">>
      [] c = "#" -> <<"%", "2", "3">>
      [] c = "%" -> <<"%", "2", "5">>
      [] c = "&" -> <<"%", "2", "6">>
      [] c = "=" -> <<"%", "3", "D">>

RECURSIVE encodeURIComponent(_)
encodeURIComponent(s) ==
    IF s = <<>> THEN <<>>
    ELSE (IF isWord(Head(s)) \/ Head(s) \in Unreserved THEN <<Head(s)>>
          ELSE escape(Head(s))) \o encodeURIComponent(Tail(s))

\* 'https://www.google.com/search?q='
SEARCH ==
    <<"h", "t", "t", "p", "s", ":", "/", "/", "w", "w", "w", ".", "g", "o", "o", "g", "l", "e", ".", "c", "o", "m", "/", "s", "e", "a", "r", "c", "h", "?", "q", "=">>

\* The onResult callback Links.init hands to SpeechModule.toggle
Links_onResult(w, transcript, rnd) ==
    LET cleaned == replaceDot(removeWhitespace(transcript))
        candidate == IF hasScheme(cleaned) THEN cleaned ELSE HTTPS \o cleaned
        search == SEARCH \o encodeURIComponent(transcript)
    IN  IF looksLikeUrl(transcript)
        THEN IF parseURL(candidate).ok THEN Links_add(w, cleaned, rnd)
             ELSE Links_add(w, search, rnd)
        ELSE Links_add(w, search, rnd)

\* Links.init, as far as the stores go: load, then the first render.
\* Links.init: load(), render(), then the wiring. load assigns links what
\* Storage.get returned; when that is null, a number, a string or an object,
\* render throws a TypeError on links.length or links.forEach, and init is
\* left with nothing wired and a links that is no array.
Links_init(w) ==
    IF ~returnsArray(w.localStorage, LINKS_KEY) THEN [w EXCEPT !.ret = "threw"]
    ELSE Links_render(Links_load(w))

----------------------------------------------------------------------------
(* The inputs of the model. *)

\* Texts typed or dictated: empty, blank, padded and plain.
TextInputs == {<<>>, <<" ">>, <<" ", "a", " ">>}
NewTextInputs == {<<" ">>, <<"b", " ">>}
SubtaskTextInputs == {<<" ">>, <<"c", " ">>}

NoOpts == [deadline |-> None, priority |-> None, categories |-> None]
FormOpts == [deadline |-> Some(1), priority |-> Some("high"), categories |-> Some(<<"work">>)]

\* add(transcript) from the mic and add(val, {...}) from the form, with the
\* suffix genId draws: two tasks of one tick may or may not get the same id.
AddInputs ==
    {<<text, NoOpts, "k3x9q">> : text \in TextInputs}
        \cup {<<<<" ", "a", " ">>, NoOpts, "p0a7m">>, <<<<"b">>, FormOpts, "k3x9q">>}

\* The options the view depends on: a deadline or none, a priority or none.
ViewOptsInputs ==
    {[deadline |-> None, priority |-> None, categories |-> None],
     [deadline |-> Some(0), priority |-> Some("high"), categories |-> None],
     [deadline |-> Some(1), priority |-> Some("low"), categories |-> None],
     [deadline |-> Some(0), priority |-> Some("low"), categories |-> None]}

\* The ids a handler is called with: those of the records in the collection,
\* and one that names no record (a stale element's, or none at all).
NoSuchId == genId("none", 0, "00000")
idSet(list) == {list[i].id : i \in 1..Len(list)}
TodoIds == idSet(todos) \cup {NoSuchId}
SubIds == UNION {idSet(todos[i].subtasks) : i \in 1..Len(todos)} \cup {NoSuchId}
LinkIds == idSet(links) \cup {NoSuchId}

LinkInputs == {<<>>, <<" ">>, <<"a", ".", "c", "o", "/", "x", "-", "y">>}
DescInputs == {<<" ">>, <<"m", "y">>}

\* What the link form hands to Links.add: nothing, a blank, a host and path
\* between blanks, a URL with its scheme in capitals, and words that are no URL.
LinkFormInputs ==
    {<<>>, <<" ">>,
     <<" ", "a", ".", "c", "o", "/", "x", "-", "y", " ">>,
     <<"H", "T", "T", "P", ":", "/", "/", "b", ".", "i", "o">>,
     <<"n", "o", " ", "u", "r", "l">>}

\* Transcripts the recognizer delivers to the Link Store: a URL spoken in
\* words, words that name no URL, a URL as text, and a text with a TLD that
\* is no URL.
VoiceInputs ==
    {<<"g", "i", "t", "h", "u", "b", " ", "d", "o", "t", " ", "c", "o", "m", " ", "s", "l", "a", "s", "h", " ", "o", "c", "t", "o", "c", "a", "t">>,
     <<"b", "u", "y", " ", "m", "i", "l", "k">>,
     <<"g", "i", "t", "h", "u", "b", ".", "c", "o", "m", "/", "o", "c", "t", "o", "c", "a", "t">>,
     <<"x", ".", "i", "o", " ", "<", "3">>}

\* The mic controls, the errors a recognizer reports and the transcripts it
\* delivers: a word, and a blank.
Controls == {"todo", "link"}
SpeechErrors == {"no-speech", "not-allowed"}
Transcripts == {<<"a">>, <<" ">>}

\* What an earlier session left in localStorage: nothing, or the tasks of a
\* version of the page that knew no deadline, priority, subtasks or categories.
StoredBefore ==
    {[k \in {TODOS_KEY, LINKS_KEY} |-> Absent],
     [k \in {TODOS_KEY, LINKS_KEY} |->
        IF k = TODOS_KEY
        THEN JSON_stringify(<<[id |-> genId("todo", 0, "k3x9q"), text |-> <<"a">>,
                               completed |-> FALSE, createdAt |-> 0]>>)
        ELSE Corrupt]}

----------------------------------------------------------------------------
(* SpeechModule (speech.js). A session is one SpeechRecognition instance:  *)
(* `by` is the control whose click created it, `state` where the browser   *)
(* has it (starting, started, stopping, resulted, errored, ended) and      *)
(* `terminal` what it produced. `log` lists the callbacks made, each with  *)
(* the session whose event made it and the control whose callback ran.     *)

\* let recognition = null; _onResult = _onStart = _onStop = _onError = null;
\* isListening = false
SpeechModule ==
    [recognition |-> 0, callbacks |-> "none", isListening |-> FALSE,
     sessions |-> <<>>, log |-> <<>>]

\* A callback of the registered set is called from an event of session s.
invoke(sp, s, callback) ==
    IF sp.callbacks = "none" THEN sp
    ELSE [sp EXCEPT !.log = Append(@, [session |-> s, callback |-> callback,
                                       control |-> sp.callbacks])]

\* SpeechModule.init(callbacks), then recognition.start()
start(sp, control) ==
    [sp EXCEPT !.callbacks = control,
               !.sessions = Append(@, [by |-> control, state |-> "starting",
                                       terminal |-> "none"]),
               !.recognition = Len(sp.sessions) + 1]

\* SpeechModule.stop
stop(sp) ==
    IF sp.recognition # 0 /\ sp.isListening
          /\ sp.sessions[sp.recognition].state \in {"starting", "started"}
    THEN [sp EXCEPT !.sessions[sp.recognition].state = "stopping"]
    ELSE sp

\* SpeechModule.toggle(callbacks)
toggleListening(sp, control) == IF sp.isListening THEN stop(sp) ELSE start(sp, control)

\* recognition.onstart
onstart(sp, s) ==
    invoke([sp EXCEPT !.isListening = TRUE, !.sessions[s].state = "started"],
           s, "onStart")

\* recognition.onresult, but for the call of the store
onresult(sp, s, transcript) ==
    IF sp.callbacks # "none" /\ trim(transcript) # <<>>
    THEN invoke([sp EXCEPT !.sessions[s].state = "resulted",
                           !.sessions[s].terminal = "result"], s, "onResult")
    ELSE [sp EXCEPT !.sessions[s].state = "resulted", !.sessions[s].terminal = "blank"]

\* An onerror that surfaces 'no-speech' like any other error.
onerror_AllSurfaced(sp, s, error) ==
    invoke(invoke([sp EXCEPT !.isListening = FALSE,
                             !.sessions[s].state = "errored",
                             !.sessions[s].terminal = error], s, "onStop"),
           s, "onError")

\* recognition.onerror
onerror(sp, s, error) ==
    LET stopped == invoke([sp EXCEPT !.isListening = FALSE,
                                     !.sessions[s].state = "errored",
                                     !.sessions[s].terminal = error], s, "onStop")
    IN  IF error # "no-speech" THEN invoke(stopped, s, "onError") ELSE stopped

\* recognition.onend
onend(sp, s) ==
    invoke([sp EXCEPT !.isListening = FALSE, !.sessions[s].state = "ended"], s, "onStop")

----------------------------------------------------------------------------
(* The state machine. *)

Init ==
    /\ todos = <<>>
    /\ currentFilter = "all"
    /\ currentSort = "newest"
    /\ links = <<>>
    /\ localStorage \in StoredBefore
    /\ todoList = <<>>
    /\ linkList = <<>>
    /\ now = 0
    /\ phase = "loading"
    /\ quotaExceeded = FALSE
    /\ call = [op |-> "none", ret |-> "done", delta |-> 0]
    /\ effects = <<>>
    /\ speech = SpeechModule
    /\ removing = {}

\* The handlers Links.init wires; Todos.init wires the others.
LinkHandlers == {"Links.add", "Links.updateDesc", "Links.remove", "Links.onResult"}

\* Whether the page has wired the handler.
Wired(op) ==
    IF op \in LinkHandlers THEN phase = "ready" ELSE phase \in {"ready", "linksFailed"}

\* A handler that runs once the page has wired it.
Handler(op, w) ==
    /\ Wired(op)
    /\ Ran(op, w)
    /\ UNCHANGED <<now, phase, quotaExceeded, speech>>

\* The DOMContentLoaded listener of app.js: Todos.init(), then Links.init().
\* An exception of Todos.init ends the listener before Links.init is called.
DOMContentLoaded ==
    LET tasks == Todos_init(World)
        both == IF tasks.ret = "threw" THEN tasks ELSE Links_init(tasks)
    IN  /\ phase = "loading"
        /\ phase' = IF tasks.ret = "threw" THEN "failed"
                    ELSE IF both.ret = "threw" THEN "linksFailed"
                    ELSE "ready"
        /\ Ran("init", both)
        /\ UNCHANGED <<now, quotaExceeded, speech>>

Add(text, opts, rnd) == Handler("add", add(World, text, opts, rnd))
Toggle(id) == Handler("toggle", toggle(World, id))
Update(id, newText) == Handler("update", update(World, id, newText))
Remove(id) == Handler("remove", remove(World, id))
AddSubtask(todoId, text, rnd) == Handler("addSubtask", addSubtask(World, todoId, text, rnd))
ToggleSubtask(todoId, subId) == Handler("toggleSubtask", toggleSubtask(World, todoId, subId))
RemoveSubtask(todoId, subId) == Handler("removeSubtask", removeSubtask(World, todoId, subId))
SetFilter(filter) == Handler("setFilter", setFilter(World, filter))
SetSort(sortKey) == Handler("setSort", setSort(World, sortKey))
LinksAdd(rawUrl, rnd) == Handler("Links.add", Links_add(World, rawUrl, rnd))
LinksUpdateDesc(id, newDesc) == Handler("Links.updateDesc", Links_updateDesc(World, id, newDesc))
LinksRemove(id) == Handler("Links.remove", Links_remove(World, id))
LinksOnResult(transcript, rnd) ==
    Handler("Links.onResult", Links_onResult(World, transcript, rnd))

\* The clock advances between two handlers.
Tick ==
    /\ now < MaxClock
    /\ now' = now + 1
    /\ UNCHANGED <<todos, currentFilter, currentSort, links, localStorage,
                   todoList, linkList, phase, quotaExceeded, call, effects, speech,
                   removing>>

\* A click on the delete button of a displayed task or link card: the
\* element gets the class 'removing' and a listener for the end of its
\* slide-out animation.
DeleteClick(key, id) ==
    /\ phase = "ready"
    /\ LET list == IF key = TODOS_KEY THEN todoList ELSE linkList
       IN  \E i \in 1..Len(list) : list[i] = id
    /\ removing' = removing \cup {[key |-> key, id |-> id, attached |-> TRUE]}
    /\ UNCHANGED <<todos, currentFilter, currentSort, links, localStorage,
                   todoList, linkList, now, phase, quotaExceeded, call, effects, speech>>

\* The animation of an element in the document ends: the listener removes
\* the record. An element that left the document gets no animationend.
AnimationEnd(e) ==
    /\ e \in removing
    /\ e.attached
    /\ IF e.key = TODOS_KEY
       THEN Handler("remove", remove(World, e.id))
       ELSE Handler("Links.remove", Links_remove(World, e.id))

\* Room for one more record, and for one more subtask, within the bounds.
RoomForRecord == Len(todos) + Len(links) < MaxRecords
RoomForSubtask(todoId) ==
    IF find(todos, todoId) = 0 THEN TRUE
    ELSE Len(todos[find(todos, todoId)].subtasks) < MaxSubs

\* The stores stay as they are.
StoresUnchanged ==
    UNCHANGED <<todos, currentFilter, currentSort, links, localStorage,
                todoList, linkList, now, phase, quotaExceeded, call, effects, removing>>

\* A click on the mic button of a store.
MicClick(control) ==
    /\ phase = "ready"
    /\ speech.isListening \/ Len(speech.sessions) < MaxSessions
    /\ speech' = toggleListening(speech, control)
    /\ StoresUnchanged

\* The start event of a recognizer that was started.
OnStart(s) ==
    /\ speech.sessions[s].state = "starting"
    /\ speech' = onstart(speech, s)
    /\ StoresUnchanged

\* The result event of a recognizer: the transcript goes to the onResult
\* that is registered, which hands it to its store.
OnResult(s, transcript) ==
    /\ speech.sessions[s].state \in {"started", "stopping"}
    /\ speech' = onresult(speech, s, transcript)
    /\ IF trim(transcript) = <<>> THEN StoresUnchanged
       ELSE /\ RoomForRecord
            /\ UNCHANGED <<now, phase, quotaExceeded>>
            /\ IF speech.callbacks = "todo"
               THEN Ran("Todos.onResult", add(World, trim(transcript), NoOpts, "k3x9q"))
               ELSE Ran("Links.onResult", Links_onResult(World, trim(transcript), "k3x9q"))

\* The error event of a recognizer.
OnError(s, error) ==
    /\ speech.sessions[s].state \in {"starting", "started", "stopping"}
    /\ speech' = onerror(speech, s, error)
    /\ StoresUnchanged

\* The end event of a recognizer, which closes every session.
OnEnd(s) ==
    /\ speech.sessions[s].state \in {"stopping", "resulted", "errored"}
    /\ speech' = onend(speech, s)
    /\ StoresUnchanged

\* The stores' operations, on one tick of the clock.
Next ==
    \/ DOMContentLoaded
    \/ \E in \in AddInputs :
          (IF trim(in[1]) = <<>> THEN TRUE ELSE RoomForRecord) /\ Add(in[1], in[2], in[3])
    \/ \E id \in TodoIds : Toggle(id)
    \/ \E id \in TodoIds, text \in NewTextInputs : Update(id, text)
    \/ \E id \in TodoIds : Remove(id)
    \/ \E id \in TodoIds, text \in SubtaskTextInputs :
          RoomForSubtask(id) /\ AddSubtask(id, text, "k3x9q")
    \/ \E id \in TodoIds, sub \in SubIds : ToggleSubtask(id, sub)
    \/ \E id \in TodoIds, sub \in SubIds : RemoveSubtask(id, sub)
    \/ \E raw \in LinkInputs, rnd \in Rands :
          (IF trim(raw) = <<>> THEN TRUE ELSE RoomForRecord) /\ LinksAdd(raw, rnd)
    \/ \E id \in LinkIds, desc \in DescInputs : LinksUpdateDesc(id, desc)
    \/ \E id \in LinkIds : LinksRemove(id)

Spec == Init /\ [][Next]_vars

\* The quota of localStorage is used up by another page of the origin, and
\* freed again.
QuotaFills ==
    /\ ~quotaExceeded
    /\ quotaExceeded' = TRUE
    /\ UNCHANGED <<todos, currentFilter, currentSort, links, localStorage,
                   todoList, linkList, now, phase, call, effects, speech, removing>>

QuotaFrees ==
    /\ quotaExceeded
    /\ quotaExceeded' = FALSE
    /\ UNCHANGED <<todos, currentFilter, currentSort, links, localStorage,
                   todoList, linkList, now, phase, call, effects, speech, removing>>

\* The stores' operations while writes fail and succeed by turns.
NextQuota ==
    \/ DOMContentLoaded
    \/ QuotaFills
    \/ QuotaFrees
    \/ RoomForRecord /\ Add(<<"a">>, NoOpts, "k3x9q")
    \/ \E id \in TodoIds : Toggle(id)
    \/ \E id \in TodoIds : Remove(id)
    \/ \E id \in TodoIds : RoomForSubtask(id) /\ AddSubtask(id, <<"c">>, "k3x9q")
    \/ RoomForRecord /\ LinksAdd(<<"a", ".", "c", "o">>, "k3x9q")
    \/ \E id \in LinkIds : LinksRemove(id)

SpecQuota == Init /\ [][NextQuota]_vars

\* The Link Store alone, over the texts of its form.
NextLinks ==
    \/ DOMContentLoaded
    \/ Tick
    \/ \E raw \in LinkFormInputs :
          (IF trim(raw) = <<>> THEN TRUE ELSE RoomForRecord) /\ LinksAdd(raw, "k3x9q")
    \/ \E transcript \in VoiceInputs : RoomForRecord /\ LinksOnResult(transcript, "k3x9q")
    \/ \E id \in LinkIds, desc \in DescInputs : LinksUpdateDesc(id, desc)
    \/ \E id \in LinkIds : LinksRemove(id)

SpecLinks == Init /\ [][NextLinks]_vars

\* Voice capture: clicks on the two mic buttons and the events of the
\* recognizers, in every order.
NextSpeech ==
    \/ DOMContentLoaded
    \/ \E control \in Controls : MicClick(control)
    \/ \E s \in 1..Len(speech.sessions) : OnStart(s)
    \/ \E s \in 1..Len(speech.sessions), transcript \in Transcripts : OnResult(s, transcript)
    \/ \E s \in 1..Len(speech.sessions), error \in SpeechErrors : OnError(s, error)
    \/ \E s \in 1..Len(speech.sessions) : OnEnd(s)

SpecSpeech == Init /\ [][NextSpeech]_vars

\* The elements that can be waiting for the end of their animation.
Removable ==
    {[key |-> TODOS_KEY, id |-> genId("todo", t, rnd), attached |-> TRUE] :
        t \in 0..MaxClock, rnd \in Rands}
    \cup {[key |-> LINKS_KEY, id |-> genId("link", t, rnd), attached |-> TRUE] :
        t \in 0..MaxClock, rnd \in Rands}

\* Deleting through the delete button, with the other handlers that render
\* in between. The browser ends the animation of an element that stays in
\* the document and dispatches its animationend.
NextDelete ==
    \/ DOMContentLoaded
    \/ \E rnd \in Rands : RoomForRecord /\ Add(<<"a">>, NoOpts, rnd)
    \/ \E id \in TodoIds : Toggle(id)
    \/ RoomForRecord /\ LinksAdd(<<"a", ".", "c", "o">>, "k3x9q")
    \/ \E id \in idSet(todos) : DeleteClick(TODOS_KEY, id)
    \/ \E id \in idSet(links) : DeleteClick(LINKS_KEY, id)
    \/ \E e \in removing : AnimationEnd(e)

SpecDelete ==
    /\ Init
    /\ [][NextDelete]_vars
    /\ \A e \in Removable : WF_vars(AnimationEnd(e))

\* What the page can find under a key when it starts: nothing, text that is
\* no JSON, the JSON of null, of a number, of a string, of an object, and
\* the JSON of an array of the store's records.
NotArrays ==
    {<<"json", [type |-> "null"]>>,
     <<"json", [type |-> "number", value |-> 0]>>,
     <<"json", [type |-> "string", value |-> <<"a">>]>>,
     <<"json", serialize("{}", [id |-> genId("todo", 0, "k3x9q")])>>}
StoredAtStartup ==
    [{TODOS_KEY} -> {Absent, Corrupt} \cup NotArrays \cup
        {JSON_stringify(<<[id |-> genId("todo", 0, "k3x9q"), text |-> <<"a">>,
                           completed |-> FALSE, createdAt |-> 0]>>)}]
    \X [{LINKS_KEY} -> {Absent, Corrupt} \cup NotArrays \cup
        {JSON_stringify(<<[id |-> genId("link", 0, "k3x9q"), url |-> HTTPS \o <<"a">>,
                           description |-> <<"a">>, createdAt |-> 0]>>)}]

\* The page starts on whatever the keys hold.
InitStartup ==
    /\ todos = <<>>
    /\ currentFilter = "all"
    /\ currentSort = "newest"
    /\ links = <<>>
    /\ \E stored \in StoredAtStartup :
          localStorage = [k \in {TODOS_KEY, LINKS_KEY} |->
                             IF k = TODOS_KEY THEN stored[1][k] ELSE stored[2][k]]
    /\ todoList = <<>>
    /\ linkList = <<>>
    /\ now = 0
    /\ phase = "loading"
    /\ quotaExceeded = FALSE
    /\ call = [op |-> "none", ret |-> "done", delta |-> 0]
    /\ effects = <<>>
    /\ speech = SpeechModule
    /\ removing = {}

\* Startup, and the adds and removes that follow it.
NextStartup ==
    \/ DOMContentLoaded
    \/ Wired("add") /\ RoomForRecord /\ Add(<<"b">>, NoOpts, "p0a7m")
    \/ Wired("remove") /\ \E id \in idSet(todos) : Remove(id)
    \/ Wired("Links.add") /\ RoomForRecord /\ LinksAdd(<<"b", ".", "c", "o">>, "p0a7m")
    \/ Wired("Links.remove") /\ \E id \in idSet(links) : LinksRemove(id)

SpecStartup == InitStartup /\ [][NextStartup]_vars

\* The derived view: tasks of every deadline and priority, created on
\* different ticks and days, under every filter and sort.
NextView ==
    \/ DOMContentLoaded
    \/ Tick
    \/ \E opts \in ViewOptsInputs :
          RoomForRecord /\ Add(<<"a">>, opts, "k3x9q")
    \/ \E id \in TodoIds : Toggle(id)
    \/ \E filter \in Filters : SetFilter(filter)
    \/ \E sortKey \in Sorts : SetSort(sortKey)

SpecView == Init /\ [][NextView]_vars

----------------------------------------------------------------------------
(* The claims. Each is stated for every handler call the page can make in  *)
(* a reachable state: the handler is applied to the world of that state.   *)

Ready == phase = "ready"

IsBlank(s) == \A i \in 1..Len(s) : s[i] \in Whitespace

\* out is s without its leading and trailing whitespace.
IsTrimOf(s, out) ==
    \E i \in 0..Len(s) :
        /\ i + Len(out) <= Len(s)
        /\ SubSeq(s, i + 1, i + Len(out)) = out
        /\ IsBlank(SubSeq(s, 1, i))
        /\ IsBlank(SubSeq(s, i + Len(out) + 1, Len(s)))
        /\ out # <<>> => out[1] \notin Whitespace /\ out[Len(out)] \notin Whitespace

\* The texts and options the claims are checked on.
CheckTexts ==
    TextInputs \cup NewTextInputs \cup {<<"a", " ", "b">>, <<" ", " ">>}
CheckOpts ==
    {NoOpts, FormOpts,
     [deadline |-> None, priority |-> Some("low"), categories |-> Some(<<>>)],
     [deadline |-> Some(0), priority |-> Some("medium"), categories |-> Some(<<"work", "home">>)],
     [deadline |-> None, priority |-> None, categories |-> Some(<<"home">>)]}

\* The world the next handler finds after one that left w.
Settled(w) == [w EXCEPT !.effects = <<>>, !.ret = "done"]

SetTodos == <<"set", TODOS_KEY>>
RenderTodos == <<"render", TODOS_KEY>>
SetLinks == <<"set", LINKS_KEY>>
RenderLinks == <<"render", LINKS_KEY>>

\* C1: add(text, opts) with a text that is not blank grows the collection by
\* exactly one; the new record is first, with the trimmed text, not completed,
\* without subtasks, with the priority and categories of opts or 'medium' and
\* none when opts names none; the records stored before follow it in order.
C1_AddPrepends ==
    Ready =>
        \A text \in CheckTexts, opts \in CheckOpts, rnd \in Rands :
            ~IsBlank(text) =>
                LET w == add(World, text, opts, rnd)
                IN  /\ Len(w.todos) = Len(todos) + 1
                    /\ IsTrimOf(text, w.todos[1].text)
                    /\ w.todos[1].completed = FALSE
                    /\ w.todos[1].subtasks = <<>>
                    /\ w.todos[1].priority =
                          (IF opts.priority = None THEN "medium" ELSE opts.priority[1])
                    /\ w.todos[1].categories =
                          (IF opts.categories = None THEN <<>> ELSE opts.categories[1])
                    /\ \A i \in 1..Len(todos) : w.todos[i + 1] = todos[i]

\* add ran on a collection that held a task: the task of the form's options
\* stands before the one dictated earlier.
C1_Witness ==
    /\ call = [op |-> "add", ret |-> "done", delta |-> 1]
    /\ Len(todos) = 2
    /\ todos[1].text = <<"b">> /\ todos[1].priority = "high"
    /\ todos[1].categories = <<"work">>
    /\ todos[2].text = <<"a">> /\ todos[2].priority = "medium"
    /\ todos[2].categories = <<>>

\* C2: add, update and addSubtask with a blank text leave every task record
\* and the order of the collection as they were.
C2_BlankTextIsNoOp ==
    Ready =>
        \A text \in CheckTexts :
            IsBlank(text) =>
                /\ \A opts \in CheckOpts, rnd \in Rands :
                      add(World, text, opts, rnd).todos = todos
                /\ \A id \in TodoIds : update(World, id, text).todos = todos
                /\ \A id \in TodoIds, rnd \in Rands :
                      addSubtask(World, id, text, rnd).todos = todos

\* update was called with a blank text on a collection that holds tasks.
C2_Witness ==
    /\ call = [op |-> "update", ret |-> "empty", delta |-> 0]
    /\ todos # <<>>

\* The completion flag of the task toggle(id) acts on: the first with that id.
CompletedOf(w, id) == w.todos[find(w.todos, id)].completed

\* C3: toggle(id) twice in succession on a task of the collection returns its
\* completion flag to what it was, and each of the two calls invokes
\* Storage.set once.
C3_ToggleTwice ==
    Ready =>
        \A id \in idSet(todos) :
            LET w1 == toggle(World, id)
                w2 == toggle(Settled(w1), id)
                Sets(w) == Len(SelectSeq(w.effects, LAMBDA e : e[1] = "set"))
            IN  /\ CompletedOf(w1, id) # CompletedOf(World, id)
                /\ CompletedOf(w2, id) = CompletedOf(World, id)
                /\ Sets(w1) = 1 /\ Sets(w2) = 1
                /\ SetTodos \in {w1.effects[i] : i \in 1..Len(w1.effects)}
                /\ SetTodos \in {w2.effects[i] : i \in 1..Len(w2.effects)}

\* toggle ran on the only task and left it not completed, as it was created:
\* the task has been toggled back.
C3_Witness ==
    /\ call = [op |-> "toggle", ret |-> "done", delta |-> 0]
    /\ Len(todos) = 1
    /\ todos[1].completed = FALSE
    /\ effects = <<SetTodos, RenderTodos>>

\* The text stored under the key parses to the collection.
StoredIs(w, key, collection) ==
    /\ w.localStorage[key] # Absent
    /\ ~JSON_throws(w.localStorage[key])
    /\ JSON_parse(w.localStorage[key]) = collection

\* The tasks of a list that do not carry the id, in order.
RECURSIVE Others(_, _)
Others(list, id) ==
    IF list = <<>> THEN <<>>
    ELSE IF Head(list).id = id THEN Others(Tail(list), id)
    ELSE <<Head(list)>> \o Others(Tail(list), id)

\* C4: remove(id) on a task with N subtasks removes the task and its N
\* subtasks in one change of the collection followed by exactly one write:
\* no record with the id is left, every other task is unchanged and in order,
\* and the stored value is the collection after the removal.
C4_RemoveCascades ==
    Ready =>
        \A id \in idSet(todos) :
            LET w == remove(World, id)
                gone == {i \in 1..Len(todos) : todos[i].id = id}
                n == countSubtasks([i \in 1..Len(todos) |->
                        IF i \in gone THEN todos[i] ELSE [todos[i] EXCEPT !.subtasks = <<>>]])
            IN  /\ \A i \in 1..Len(w.todos) : w.todos[i].id # id
                /\ w.todos = Others(todos, id)
                /\ records(World) - records(w) = Cardinality(gone) + n
                /\ w.effects = <<SetTodos, RenderTodos>>
                /\ ~quotaExceeded => StoredIs(w, TODOS_KEY, w.todos)

\* remove ran on a task with one subtask: two records went in one call.
C4_Witness ==
    /\ call = [op |-> "remove", ret |-> "done", delta |-> -2]
    /\ effects = <<SetTodos, RenderTodos>>

\* Ids that name no task, and for a task the ids that name none of its subtasks.
AbsentTodoIds ==
    ({NoSuchId} \cup {genId("todo", t, r) : t \in 0..MaxClock, r \in Rands}) \ idSet(todos)
AbsentSubIds(i) ==
    ({NoSuchId} \cup {genId("sub", t, r) : t \in 0..MaxClock, r \in Rands})
        \ idSet(todos[i].subtasks)
AbsentLinkIds ==
    ({NoSuchId} \cup {genId("link", t, r) : t \in 0..MaxClock, r \in Rands}) \ idSet(links)

\* A Task Store operation that left w wrote before it rendered, did both if
\* it changed the collection, and left the stored value equal to the collection.
WroteTodosThrough(w) ==
    /\ w.effects \in {<<>>, <<SetTodos, RenderTodos>>}
    /\ w.todos # todos => w.effects = <<SetTodos, RenderTodos>>
    /\ (w.effects # <<>> /\ ~quotaExceeded) => StoredIs(w, TODOS_KEY, w.todos)

\* The same of a Link Store operation.
WroteLinksThrough(w) ==
    /\ w.effects \in {<<>>, <<SetLinks, RenderLinks>>}
    /\ w.links # links => w.effects = <<SetLinks, RenderLinks>>
    /\ (w.effects # <<>> /\ ~quotaExceeded) => StoredIs(w, LINKS_KEY, w.links)

\* C5: a mutating operation of either store (add, toggle, update, remove,
\* addSubtask, toggleSubtask, removeSubtask; Links add, remove) writes the whole
\* collection through Storage.set before it triggers the render; when the write
\* succeeds, the value stored under the store's key is the collection in
\* memory when the operation returns.
C5_WriteThrough ==
    Ready =>
        /\ \A text \in TextInputs \cup NewTextInputs, opts \in {NoOpts, FormOpts}, rnd \in Rands :
              WroteTodosThrough(add(World, text, opts, rnd))
        /\ \A id \in TodoIds :
              /\ WroteTodosThrough(toggle(World, id))
              /\ WroteTodosThrough(remove(World, id))
              /\ \A text \in NewTextInputs : WroteTodosThrough(update(World, id, text))
              /\ \A text \in SubtaskTextInputs, rnd \in Rands :
                    WroteTodosThrough(addSubtask(World, id, text, rnd))
              /\ \A sub \in SubIds :
                    /\ WroteTodosThrough(toggleSubtask(World, id, sub))
                    /\ WroteTodosThrough(removeSubtask(World, id, sub))
        /\ \A raw \in LinkInputs, rnd \in Rands :
              WroteLinksThrough(Links_add(World, raw, rnd))
        /\ \A id \in LinkIds : WroteLinksThrough(Links_remove(World, id))

\* Links.add ran: the write came before the render and the links key holds
\* the collection with the new link.
C5_Witness ==
    /\ call = [op |-> "Links.add", ret |-> "done", delta |-> 1]
    /\ effects = <<SetLinks, RenderLinks>>
    /\ links # <<>>
    /\ localStorage[LINKS_KEY] = JSON_stringify(links)

\* The handler that left w changed neither collection and returned through
\* one of the return statements named.
Missed(w, rets) == w.todos = todos /\ w.links = links /\ w.ret \in rets

\* C6: toggle, update, remove, addSubtask, toggleSubtask and removeSubtask with
\* a task id or subtask id that is not in the collection, and updateDesc and
\* remove of the Link Store with an unknown link id, leave the collection in
\* memory unchanged and return normally.
C6_LookupMissIsNoOp ==
    Ready =>
        /\ \A id \in AbsentTodoIds :
              /\ Missed(toggle(World, id), {"miss"})
              /\ \A text \in NewTextInputs : Missed(update(World, id, text), {"empty", "miss"})
              /\ Missed(remove(World, id), {"done"})
              /\ \A text \in SubtaskTextInputs, rnd \in Rands :
                    Missed(addSubtask(World, id, text, rnd), {"empty", "miss"})
              /\ \A sub \in SubIds :
                    /\ Missed(toggleSubtask(World, id, sub), {"miss"})
                    /\ Missed(removeSubtask(World, id, sub), {"miss"})
        /\ \A i \in 1..Len(todos) : \A sub \in AbsentSubIds(i) :
              /\ find(todos, todos[i].id) = i =>
                    /\ Missed(toggleSubtask(World, todos[i].id, sub), {"miss"})
                    /\ Missed(removeSubtask(World, todos[i].id, sub), {"done"})
        /\ \A id \in AbsentLinkIds :
              /\ \A desc \in DescInputs : Missed(Links_updateDesc(World, id, desc), {"miss"})
              /\ Missed(Links_remove(World, id), {"done"})

\* toggleSubtask was called with an id that names no subtask of a task that
\* has one, and returned through the miss.
C6_Witness ==
    /\ call = [op |-> "toggleSubtask", ret |-> "miss", delta |-> 0]
    /\ effects = <<>>
    /\ \E i \in 1..Len(todos) : todos[i].subtasks # <<>>

\* Whether a subtask operation fails: the parent is unknown, or the subtask id
\* is not found in the parent.
ParentUnknown(todoId) == todoId \notin idSet(todos)
SubUnknown(todoId, subId) ==
    \/ ParentUnknown(todoId)
    \/ subId \notin idSet(todos[find(todos, todoId)].subtasks)

\* C7 as claimed: addSubtask, toggleSubtask and removeSubtask make no write
\* and no render when the text is blank, the parent is unknown or the subtask
\* id is not found in the parent.
C7_NoEffectsOnFailure ==
    Ready =>
        \A id \in TodoIds :
            /\ \A text \in SubtaskTextInputs, rnd \in Rands :
                  (IsBlank(text) \/ ParentUnknown(id)) =>
                      addSubtask(World, id, text, rnd).effects = <<>>
            /\ \A sub \in SubIds :
                  SubUnknown(id, sub) =>
                      /\ toggleSubtask(World, id, sub).effects = <<>>
                      /\ removeSubtask(World, id, sub).effects = <<>>

\* What the subtask operations do: addSubtask and toggleSubtask make no write
\* and no render when they fail, and removeSubtask makes none when the parent
\* is unknown; each writes once and then renders once when it succeeds.
\* removeSubtask on a known parent with a subtask id that is not found leaves
\* the collection unchanged and still writes once and renders once.
C7_EffectsOfSubtaskOps ==
    Ready =>
        \A id \in TodoIds :
            /\ \A text \in SubtaskTextInputs, rnd \in Rands :
                  addSubtask(World, id, text, rnd).effects =
                      (IF IsBlank(text) \/ ParentUnknown(id) THEN <<>>
                       ELSE <<SetTodos, RenderTodos>>)
            /\ \A sub \in SubIds :
                  /\ toggleSubtask(World, id, sub).effects =
                        (IF SubUnknown(id, sub) THEN <<>> ELSE <<SetTodos, RenderTodos>>)
                  /\ removeSubtask(World, id, sub).effects =
                        (IF ParentUnknown(id) THEN <<>> ELSE <<SetTodos, RenderTodos>>)
                  /\ SubUnknown(id, sub) => removeSubtask(World, id, sub).todos = todos

\* removeSubtask ran on a known parent with a subtask id it does not hold:
\* no record went, and the collection was written and rendered.
C7_Witness ==
    /\ call = [op |-> "removeSubtask", ret |-> "done", delta |-> 0]
    /\ effects = <<SetTodos, RenderTodos>>
    /\ todos # <<>>

----------------------------------------------------------------------------
(* The derived view, for every filter and sort whatever the current ones.  *)

\* The calendar day of the clock.
Today == now \div TicksPerDay

\* The filter predicates, on calendar days.
Satisfies(x, filter) ==
    CASE filter = "active" -> ~x.completed
      [] filter = "completed" -> x.completed
      [] filter = "overdue" -> ~x.completed /\ x.deadline # None /\ x.deadline[1] < Today
      [] OTHER -> TRUE

\* getVisible() with the filter and the sort set.
VisibleUnder(filter, sortKey) ==
    getVisible([World EXCEPT !.currentFilter = filter, !.currentSort = sortKey]).list

Count(list, x) == Cardinality({i \in 1..Len(list) : list[i] = x})
Elements(list) == {list[i] : i \in 1..Len(list)}

\* C8: getVisible() holds exactly the stored tasks that satisfy the filter
\* (all: every task; active: not completed; completed: completed; overdue: not
\* completed and deadline before today); under 'overdue' it holds no completed
\* task and no task without a deadline.
C8_VisibleIsFiltered ==
    \A filter \in Filters, sortKey \in Sorts :
        LET v == VisibleUnder(filter, sortKey)
        IN  /\ \A x \in Elements(todos) \cup Elements(v) :
                  Count(v, x) = (IF Satisfies(x, filter) THEN Count(todos, x) ELSE 0)
            /\ filter = "overdue" =>
                  \A i \in 1..Len(v) : ~v[i].completed /\ v[i].deadline # None

\* The 'overdue' filter was chosen on a day after the deadline of two tasks,
\* one of them completed: the view holds the other alone.
C8_Witness ==
    /\ call.op = "setFilter"
    /\ currentFilter = "overdue"
    /\ Len(todos) = 2
    /\ \E i, j \in 1..2 :
          /\ todos[i].completed /\ todos[i].deadline = Some(0)
          /\ ~todos[j].completed /\ todos[j].deadline = Some(0)
          /\ getVisible(World).list = <<todos[j]>>
    /\ Today = 1
    /\ Len(todoList) = 1

\* The rank of a priority in the view: high first.
Rank(x) == CASE x.priority = "high" -> 1 [] x.priority = "medium" -> 2 [] x.priority = "low" -> 3

\* a may stand before b under the sort key.
InOrder(a, b, sortKey) ==
    CASE sortKey = "newest" -> a.createdAt >= b.createdAt
      [] sortKey = "oldest" -> a.createdAt <= b.createdAt
      [] sortKey = "deadline" ->
            IF b.deadline = None THEN TRUE
            ELSE a.deadline # None /\ a.deadline[1] <= b.deadline[1]
      [] sortKey = "priority" -> Rank(a) <= Rank(b)

\* The tasks of a list that compare equal to x under the sort key, in order.
EqualTo(list, x, sortKey) ==
    SelectSeq(list, LAMBDA y : InOrder(x, y, sortKey) /\ InOrder(y, x, sortKey))

\* C9: getVisible() is the filtered tasks ordered by the sort key: newest by
\* creation time descending, oldest ascending, deadline ascending with the tasks
\* without a deadline last, priority high before medium before low; tasks that
\* compare equal keep their stored order. (The tasks equal to one another are
\* the same in the view as in the stored order, so the view is a permutation.)
C9_VisibleIsSorted ==
    \A filter \in Filters, sortKey \in Sorts :
        LET v == VisibleUnder(filter, sortKey)
            filtered == SelectSeq(todos, LAMBDA x : Satisfies(x, filter))
        IN  /\ Len(v) = Len(filtered)
            /\ \A i, j \in 1..Len(v) : i < j => InOrder(v[i], v[j], sortKey)
            /\ \A x \in Elements(filtered) \cup Elements(v) :
                  EqualTo(v, x, sortKey) = EqualTo(filtered, x, sortKey)

\* The 'priority' sort was chosen over a low task stored before a high one
\* that was created earlier: the view has the high one first.
C9_Witness ==
    /\ call.op = "setSort"
    /\ currentSort = "priority"
    /\ Len(todos) = 2
    /\ todos[1].priority = "low" /\ todos[2].priority = "high"
    /\ todos[1].createdAt > todos[2].createdAt
    /\ getVisible(World).list = <<todos[2], todos[1]>>

\* C10: getVisible() under every filter and sort leaves the stored array as
\* it is, and a change of the filter or of the sort with its render leaves the
\* collection, its order and the value stored under the tasks key unchanged.
C10_ViewIsPure ==
    /\ \A filter \in Filters, sortKey \in Sorts :
          getVisible([World EXCEPT !.currentFilter = filter,
                                   !.currentSort = sortKey]).todos = todos
    /\ Ready =>
          /\ \A filter \in Filters :
                LET w == setFilter(World, filter)
                IN  /\ w.todos = todos
                    /\ w.localStorage = localStorage
                    /\ w.effects = <<RenderTodos>>
          /\ \A sortKey \in Sorts :
                LET w == setSort(World, sortKey)
                IN  /\ w.todos = todos
                    /\ w.localStorage = localStorage
                    /\ w.effects = <<RenderTodos>>

\* The 'oldest' sort was chosen over two tasks of different ticks: the view
\* reverses them, the collection and the stored value keep the newest first.
C10_Witness ==
    /\ call.op = "setSort"
    /\ currentSort = "oldest"
    /\ Len(todos) = 2
    /\ todos[1].createdAt > todos[2].createdAt
    /\ getVisible(World).list = <<todos[2], todos[1]>>
    /\ localStorage[TODOS_KEY] = JSON_stringify(todos)

----------------------------------------------------------------------------
(* The deadline predicates, on calendar days.                              *)

\* The calendar day a tick of the clock falls on.
DayOf(t) == t \div TicksPerDay

\* Deadline days up to two days after the last day of the clock, and none.
CheckDeadlines == {None} \cup {Some(d) : d \in 0..(DayOf(MaxClock) + 2)}

\* The stored tasks, each with every deadline and either completion flag.
CheckTasks ==
    {[todos[i] EXCEPT !.deadline = d, !.completed = c] :
        i \in 1..Len(todos), d \in CheckDeadlines, c \in BOOLEAN}

\* C11: isOverdue(task) holds exactly when the task is not completed, has a
\* deadline and the deadline day is before today; isWarning(task) exactly when
\* it is not completed, has a deadline and the deadline day is today or
\* tomorrow. Both are false for a completed task and for a task without a
\* deadline, a deadline of today warns and is not overdue, no task is both, and
\* two moments of one calendar day give the same results.
C11_DeadlinePredicates ==
    \A x \in CheckTasks, t \in 0..MaxClock :
        LET due == x.deadline # None /\ ~x.completed
        IN  /\ isOverdue(x, t) <=> (due /\ x.deadline[1] < DayOf(t))
            /\ isWarning(x, t) <=>
                  (due /\ x.deadline[1] \in {DayOf(t), DayOf(t) + 1})
            /\ (x.completed \/ x.deadline = None) =>
                  ~isOverdue(x, t) /\ ~isWarning(x, t)
            /\ (due /\ x.deadline[1] = DayOf(t)) =>
                  isWarning(x, t) /\ ~isOverdue(x, t)
            /\ ~(isOverdue(x, t) /\ isWarning(x, t))
            /\ \A u \in 0..MaxClock :
                  DayOf(u) = DayOf(t) =>
                      /\ isOverdue(x, u) = isOverdue(x, t)
                      /\ isWarning(x, u) = isWarning(x, t)

\* Late on the day of its deadline a task that is not completed warns and is
\* not overdue, and the completed task beside it does neither.
C11_Witness ==
    /\ now > 0 /\ DayOf(now) = 0
    /\ Len(todos) = 2
    /\ \E i, j \in 1..2 :
          /\ todos[i].deadline = Some(0) /\ ~todos[i].completed
          /\ isWarning(todos[i], now) /\ ~isOverdue(todos[i], now)
          /\ todos[j].deadline = Some(0) /\ todos[j].completed
          /\ ~isWarning(todos[j], now) /\ ~isOverdue(todos[j], now)

----------------------------------------------------------------------------
(* Migration on load.                                                      *)

\* Stored task records: of the first version of the page, of a version that
\* knew deadline and priority only, and of the present one.
LegacyRecord ==
    [id |-> genId("todo", 0, "k3x9q"), text |-> <<"a">>, completed |-> FALSE,
     createdAt |-> 0]
PartialRecord ==
    [id |-> genId("todo", 1, "p0a7m"), text |-> <<"b">>, completed |-> TRUE,
     createdAt |-> 1, deadline |-> Some(1), priority |-> "high"]
FullRecord ==
    [id |-> genId("todo", 1, "k3x9q"), text |-> <<"c">>, completed |-> FALSE,
     createdAt |-> 1, deadline |-> None, priority |-> "low",
     subtasks |-> <<[id |-> genId("sub", 1, "k3x9q"), text |-> <<"d">>,
                     completed |-> TRUE]>>,
     categories |-> <<"work">>]
CheckStoredRecords == {LegacyRecord, PartialRecord, FullRecord}
CheckStoredArrays ==
    {<<>>} \cup {<<r>> : r \in CheckStoredRecords}
           \cup {<<r, s>> : r \in CheckStoredRecords, s \in CheckStoredRecords}

MigratedFields == {"deadline", "priority", "subtasks", "categories"}
DefaultOf(f) ==
    CASE f = "deadline" -> None
      [] f = "priority" -> "medium"
      [] f = "subtasks" -> <<>>
      [] f = "categories" -> <<>>

\* C12: after load over a stored array of task records, every task in memory
\* has deadline, priority, subtasks and categories, each the stored value where
\* the stored record has the field and the default (null, 'medium', [], [])
\* where it has not; load writes nothing, so the stored text stays as it was,
\* and so it does through the first render. (load runs at startup only.)
C12_MigrationOnLoad ==
    phase = "loading" =>
    \A stored \in CheckStoredArrays :
        LET w0 == [World EXCEPT !.localStorage[TODOS_KEY] = JSON_stringify(stored)]
            w == load(w0)
        IN  /\ Len(w.todos) = Len(stored)
            /\ \A i \in 1..Len(stored) :
                  /\ DOMAIN w.todos[i] = DOMAIN stored[i] \cup MigratedFields
                  /\ \A f \in DOMAIN stored[i] : w.todos[i][f] = stored[i][f]
                  /\ \A f \in MigratedFields \ DOMAIN stored[i] :
                        w.todos[i][f] = DefaultOf(f)
            /\ w.localStorage = w0.localStorage
            /\ w.effects = <<>>
            /\ Todos_init(w0).localStorage = w0.localStorage
            /\ Todos_init(w0).effects = <<RenderTodos>>

\* The page started over the tasks of its first version: the task in memory
\* has the four fields at their defaults and the stored text still lacks them.
C12_Witness ==
    /\ call.op = "init"
    /\ localStorage[TODOS_KEY] = JSON_stringify(<<LegacyRecord>>)
    /\ Len(todos) = 1
    /\ DOMAIN todos[1] = DOMAIN LegacyRecord \cup MigratedFields
    /\ todos[1].deadline = None /\ todos[1].priority = "medium"
    /\ todos[1].subtasks = <<>> /\ todos[1].categories = <<>>
    /\ todos[1].id = LegacyRecord.id

----------------------------------------------------------------------------
(* The Persistence Adapter's read contract.                                *)

\* Defaults a caller may hand to get.
CheckDefaults == {<<>>, <<LegacyRecord>>}

\* Collections to store: those in memory and two stored arrays of migration.
CheckCollections == {todos, links, <<FullRecord>>, <<LegacyRecord, PartialRecord>>}

\* C13: get(key, d) returns d when the key is absent and when the stored
\* text does not deserialize, and the deserialized value otherwise; after a
\* set(key, v) that succeeded, get(key, d) returns a value equal to v. (get
\* returns in each of the three cases: it never throws.)
C13_ReadContract ==
    \A key \in {TODOS_KEY, LINKS_KEY}, d \in CheckDefaults :
        /\ Storage_get([localStorage EXCEPT ![key] = Absent], key, d) = d
        /\ Storage_get([localStorage EXCEPT ![key] = Corrupt], key, d) = d
        /\ (localStorage[key] # Absent /\ ~JSON_throws(localStorage[key])) =>
              Storage_get(localStorage, key, d) = JSON_parse(localStorage[key])
        /\ \A v \in CheckCollections :
              LET ls == Storage_set(localStorage, key, v, FALSE)
              IN  /\ ls[key] # Absent /\ ~JSON_throws(ls[key])
                  /\ Storage_get(ls, key, d) = v

\* The links key held text that is no JSON and the links loaded as the
\* default; the tasks were stored with a subtask and read back equal.
C13_Witness ==
    /\ localStorage[LINKS_KEY] = Corrupt
    /\ links = <<>>
    /\ call = [op |-> "addSubtask", ret |-> "done", delta |-> 1]
    /\ localStorage[TODOS_KEY] = JSON_stringify(todos)
    /\ Storage_get(localStorage, TODOS_KEY, <<>>) = todos
    /\ Storage_get(localStorage, LINKS_KEY, <<>>) = <<>>

----------------------------------------------------------------------------
(* Writes that fail.                                                       *)

\* The world as it is but for the quota.
WorldWithQuota(full) == [World EXCEPT !.quotaExceeded = full]

\* An operation that left wf when its write failed and wok when it did not:
\* it returned the same way, changed the collections and rendered the same,
\* and left localStorage as it was; its write, when it succeeds, stores the
\* whole collection of its key.
FailsSoftly(wf, wok, key, collection) ==
    /\ wf.ret = wok.ret
    /\ wf.todos = wok.todos /\ wf.links = wok.links
    /\ wf.todoList = wok.todoList /\ wf.linkList = wok.linkList
    /\ wf.effects = wok.effects
    /\ wf.localStorage = localStorage
    /\ wok.effects # <<>> => StoredIs(wok, key, collection)

FailsSoftlyTodos(wf, wok) == FailsSoftly(wf, wok, TODOS_KEY, wok.todos)
FailsSoftlyLinks(wf, wok) == FailsSoftly(wf, wok, LINKS_KEY, wok.links)

\* C14: a mutating operation whose Storage.set fails returns as it does when
\* the write succeeds, with the collection changed and the render made, and
\* leaves the stored value as it was; a mutating operation whose write
\* succeeds, whatever writes failed before it, leaves the stored value equal
\* to the whole collection in memory.
C14_FailingWriteIsSwallowed ==
    Ready =>
        /\ \A text \in TextInputs, opts \in {NoOpts, FormOpts} :
              FailsSoftlyTodos(add(WorldWithQuota(TRUE), text, opts, "p0a7m"),
                               add(WorldWithQuota(FALSE), text, opts, "p0a7m"))
        /\ \A id \in TodoIds :
              /\ FailsSoftlyTodos(toggle(WorldWithQuota(TRUE), id),
                                  toggle(WorldWithQuota(FALSE), id))
              /\ FailsSoftlyTodos(remove(WorldWithQuota(TRUE), id),
                                  remove(WorldWithQuota(FALSE), id))
              /\ \A text \in NewTextInputs :
                    FailsSoftlyTodos(update(WorldWithQuota(TRUE), id, text),
                                     update(WorldWithQuota(FALSE), id, text))
              /\ \A text \in SubtaskTextInputs :
                    FailsSoftlyTodos(addSubtask(WorldWithQuota(TRUE), id, text, "p0a7m"),
                                     addSubtask(WorldWithQuota(FALSE), id, text, "p0a7m"))
              /\ \A sub \in SubIds :
                    /\ FailsSoftlyTodos(toggleSubtask(WorldWithQuota(TRUE), id, sub),
                                        toggleSubtask(WorldWithQuota(FALSE), id, sub))
                    /\ FailsSoftlyTodos(removeSubtask(WorldWithQuota(TRUE), id, sub),
                                        removeSubtask(WorldWithQuota(FALSE), id, sub))
        /\ \A raw \in LinkInputs :
              FailsSoftlyLinks(Links_add(WorldWithQuota(TRUE), raw, "p0a7m"),
                               Links_add(WorldWithQuota(FALSE), raw, "p0a7m"))
        /\ \A id \in LinkIds :
              /\ FailsSoftlyLinks(Links_remove(WorldWithQuota(TRUE), id),
                                  Links_remove(WorldWithQuota(FALSE), id))
              /\ \A desc \in DescInputs :
                    FailsSoftlyLinks(Links_updateDesc(WorldWithQuota(TRUE), id, desc),
                                     Links_updateDesc(WorldWithQuota(FALSE), id, desc))

\* A link was added while the quota was used up: it is in memory and not
\* under its key. The quota was freed and a toggle wrote the tasks, which are
\* stored as they are in memory.
C14_Witness ==
    /\ ~quotaExceeded
    /\ call = [op |-> "toggle", ret |-> "done", delta |-> 0]
    /\ links # <<>> /\ localStorage[LINKS_KEY] \in {Absent, Corrupt}
    /\ todos # <<>>
    /\ localStorage[TODOS_KEY] = JSON_stringify(todos)

----------------------------------------------------------------------------
(* Link Store: add.                                                        *)

\* t begins with http:// or https://, in capitals or not.
BeginsWithScheme(t) ==
    \E p \in {HTTP, HTTPS} :
        /\ Len(t) >= Len(p)
        /\ \A i \in 1..Len(p) : t[i] \in {p[i], toUpperChar(p[i])}

\* s without the blanks around it.
TrimOf(s) ==
    CHOOSE t \in {SubSeq(s, i, j) : i \in 1..(Len(s) + 1), j \in 0..Len(s)} :
        IsTrimOf(s, t)

\* The texts Links.add is checked on.
CheckLinkTexts ==
    LinkFormInputs \cup LinkInputs \cup
        {<<" ", "h", "T", "T", "p", "s", ":", "/", "/", "c", ".", "a", "i", "/", "9", " ">>, <<"f", "t", "p", ":", "/", "/", "d", ".", "i", "o">>}

\* C15: Links.add of a blank text leaves the links as they are; of any other
\* text it puts one new record first, whose url is the trimmed text when that
\* begins with http:// or https:// (in either case) and 'https://' followed by
\* the trimmed text otherwise, and whose description is autoDescribe of the
\* url. Every link held begins with a scheme.
C15_LinksAdd ==
    /\ \A i \in 1..Len(links) : BeginsWithScheme(links[i].url)
    /\ Ready =>
          \A raw \in CheckLinkTexts :
              LET w == Links_add(World, raw, "p0a7m")
                  t == TrimOf(raw)
              IN  IF IsBlank(raw) THEN w.links = links /\ w.effects = <<>>
                  ELSE /\ Len(w.links) = Len(links) + 1
                       /\ Tail(w.links) = links
                       /\ w.links[1].url = (IF BeginsWithScheme(t) THEN t ELSE HTTPS \o t)
                       /\ BeginsWithScheme(w.links[1].url)
                       /\ w.links[1].description = autoDescribe(w.links[1].url)

\* Links.add ran on a URL with its scheme in capitals after one on a host and
\* path between blanks: the first is kept as typed, the second got https://.
C15_Witness ==
    /\ call = [op |-> "Links.add", ret |-> "done", delta |-> 1]
    /\ Len(links) = 2
    /\ links[1].url = <<"H", "T", "T", "P", ":", "/", "/", "b", ".", "i", "o">>
    /\ links[2].url = <<"h", "t", "t", "p", "s", ":", "/", "/", "a", ".", "c", "o", "/", "x", "-", "y">>
    /\ links[2].description = <<"X", " ", "y", " ", EmDash, " ", "a", ".", "c", "o">>

----------------------------------------------------------------------------
(* Link Store: texts that are no URL.                                      *)

\* The url Links.add makes of a text: trimmed, with https:// if it has no scheme.
Normalized(raw) ==
    IF BeginsWithScheme(TrimOf(raw)) THEN TrimOf(raw) ELSE HTTPS \o TrimOf(raw)

\* C16: Links.add of a text that is not blank and that, with its scheme, is
\* no URL the parser accepts, declines: it creates no link record.
C16_MalformedUrlDeclined ==
    Ready =>
        \A raw \in CheckLinkTexts :
            (~IsBlank(raw) /\ ~parseURL(Normalized(raw)).ok) =>
                Links_add(World, raw, "p0a7m").links = links

\* Links.add ran on words that are no URL: a record holds them after
\* https://, described by that same text.
C16_Witness ==
    /\ call = [op |-> "Links.add", ret |-> "done", delta |-> 1]
    /\ links # <<>>
    /\ links[1].url = <<"h", "t", "t", "p", "s", ":", "/", "/", "n", "o", " ", "u", "r", "l">>
    /\ ~parseURL(links[1].url).ok
    /\ links[1].description = links[1].url
    /\ localStorage[LINKS_KEY] = JSON_stringify(links)

----------------------------------------------------------------------------
(* Link Store: updateDesc.                                                 *)

CheckDescs == DescInputs \cup {<<>>, <<" ", "o", "u", "r", " ", "d", "o", "c", "s", " ">>}

\* C17: updateDesc(id, newText) on a link that is held gives the first link
\* of that id the trimmed text as its description when that is not empty and
\* leaves the description otherwise; either way it writes the links once, and
\* the link's url, id and createdAt and every other link stay as they were.
C17_UpdateDesc ==
    Ready =>
        \A id \in idSet(links), desc \in CheckDescs :
            LET w == Links_updateDesc(World, id, desc)
                i == CHOOSE k \in 1..Len(links) :
                        links[k].id = id /\ \A j \in 1..(k - 1) : links[j].id # id
            IN  /\ Len(w.links) = Len(links)
                /\ w.links[i].description =
                      (IF IsBlank(desc) THEN links[i].description ELSE TrimOf(desc))
                /\ w.links[i].url = links[i].url
                /\ w.links[i].id = links[i].id
                /\ w.links[i].createdAt = links[i].createdAt
                /\ DOMAIN w.links[i] = DOMAIN links[i]
                /\ \A j \in 1..Len(links) : j # i => w.links[j] = links[j]
                /\ w.effects = <<SetLinks>>
                /\ StoredIs(w, LINKS_KEY, w.links)
                /\ w.todos = todos

\* updateDesc gave the older of two links a description of its own: the
\* newer keeps the one autoDescribe made, and both are stored.
C17_Witness ==
    /\ call = [op |-> "Links.updateDesc", ret |-> "done", delta |-> 0]
    /\ effects = <<SetLinks>>
    /\ Len(links) = 2
    /\ links[2].description = <<"m", "y">>
    /\ links[2].url = <<"h", "t", "t", "p", "s", ":", "/", "/", "a", ".", "c", "o", "/", "x", "-", "y">>
    /\ links[1].description = autoDescribe(links[1].url)
    /\ localStorage[LINKS_KEY] = JSON_stringify(links)

----------------------------------------------------------------------------
(* Link Store: voice.                                                      *)

\* Transcripts with what is expected of each: whether it holds a TLD-like
\* token, whether its cleaned candidate is a URL, and its URL-encoded text.
Said(said, tld, valid, encoded) ==
    [said |-> said, tld |-> tld, valid |-> valid, encoded |-> encoded]
CheckTranscripts ==
    {Said(<<"g", "i", "t", "h", "u", "b", " ", "d", "o", "t", " ", "c", "o", "m", " ", "s", "l", "a", "s", "h", " ", "o", "c", "t", "o", "c", "a", "t">>, FALSE, FALSE,
          <<"g", "i", "t", "h", "u", "b", "%", "2", "0", "d", "o", "t", "%", "2", "0", "c", "o", "m", "%", "2", "0", "s", "l", "a", "s", "h", "%", "2", "0", "o", "c", "t", "o", "c", "a", "t">>),
     Said(<<"b", "u", "y", " ", "m", "i", "l", "k">>, FALSE, FALSE, <<"b", "u", "y", "%", "2", "0", "m", "i", "l", "k">>),
     Said(<<"g", "i", "t", "h", "u", "b", ".", "c", "o", "m", "/", "o", "c", "t", "o", "c", "a", "t">>, TRUE, TRUE, <<"g", "i", "t", "h", "u", "b", ".", "c", "o", "m", "%", "2", "F", "o", "c", "t", "o", "c", "a", "t">>),
     Said(<<"x", ".", "i", "o", " ", "<", "3">>, TRUE, FALSE, <<"x", ".", "i", "o", "%", "2", "0", "%", "3", "C", "3">>),
     Said(<<"a", ".", "c", "o", "m", "p", "a", "n", "y">>, FALSE, FALSE, <<"a", ".", "c", "o", "m", "p", "a", "n", "y">>),
     Said(<<"G", "o", " ", "t", "o", " ", "B", ".", "I", "O", " ", "n", "o", "w">>, TRUE, TRUE, <<"G", "o", "%", "2", "0", "t", "o", "%", "2", "0", "B", ".", "I", "O", "%", "2", "0", "n", "o", "w">>)}

GithubOctocat == <<"h", "t", "t", "p", "s", ":", "/", "/", "g", "i", "t", "h", "u", "b", ".", "c", "o", "m", "/", "o", "c", "t", "o", "c", "a", "t">>

\* C18: the transcript "github dot com slash octocat" given to the Link
\* Store's onResult creates a record whose url is https://github.com/octocat.
C18_SpokenUrl ==
    Ready =>
        LET w == Links_onResult(World, <<"g", "i", "t", "h", "u", "b", " ", "d", "o", "t", " ", "c", "o", "m", " ", "s", "l", "a", "s", "h", " ", "o", "c", "t", "o", "c", "a", "t">>, "p0a7m")
        IN  /\ Len(w.links) = Len(links) + 1
            /\ w.links[1].url = GithubOctocat

\* onResult ran on "github dot com slash octocat": the record is a search
\* for the words as they were said.
C18_Witness ==
    /\ call = [op |-> "Links.onResult", ret |-> "done", delta |-> 1]
    /\ links # <<>>
    /\ links[1].url = SEARCH \o <<"g", "i", "t", "h", "u", "b", "%", "2", "0", "d", "o", "t", "%", "2", "0", "c", "o", "m", "%", "2", "0", "s", "l", "a", "s", "h", "%", "2", "0", "o", "c", "t", "o", "c", "a", "t">>
    /\ links[1].url # GithubOctocat

\* C19: onResult with a transcript that is not empty creates exactly one link
\* record, placed first; when the transcript holds no TLD-like token of the
\* list, or its cleaned candidate is no URL, the record's url is the search
\* URL followed by the URL-encoded transcript as it was said.
C19_VoiceFallback ==
    Ready =>
        \A x \in CheckTranscripts :
            LET w == Links_onResult(World, x.said, "p0a7m")
            IN  /\ Len(w.links) = Len(links) + 1
                /\ Tail(w.links) = links
                /\ w.effects = <<SetLinks, RenderLinks>>
                /\ looksLikeUrl(x.said) = x.tld
                /\ (~x.tld \/ ~x.valid) => w.links[1].url = SEARCH \o x.encoded
                /\ (x.tld /\ x.valid) => ~startsWith(w.links[1].url, SEARCH)

\* onResult ran on "x.io <3", which holds a TLD and is no URL, after "buy
\* milk": both records are searches for the encoded words.
C19_Witness ==
    /\ call = [op |-> "Links.onResult", ret |-> "done", delta |-> 1]
    /\ Len(links) = 2
    /\ links[1].url = SEARCH \o <<"x", ".", "i", "o", "%", "2", "0", "%", "3", "C", "3">>
    /\ links[2].url = SEARCH \o <<"b", "u", "y", "%", "2", "0", "m", "i", "l", "k">>

----------------------------------------------------------------------------
(* Voice capture: the callbacks of one session.                            *)

\* The callbacks made from the events of session s, in order.
CallsOf(s) ==
    LET made == SelectSeq(speech.log, LAMBDA e : e.session = s)
    IN  [i \in 1..Len(made) |-> made[i].callback]

Positions(calls, names) == {i \in 1..Len(calls) : calls[i] \in names}

\* A session that has ended after a result it delivered or a failure it
\* reported.
Concluded(s) ==
    /\ speech.sessions[s].state = "ended"
    /\ speech.sessions[s].terminal \in {"result"} \cup (SpeechErrors \ {"no-speech"})

\* C20: a session that produced a result or a failure made exactly one call
\* of onResult or onError, then exactly one call of onStop, in that order; no
\* session calls onError after an onStop of its own.
C20_SessionEventOrder ==
    \A s \in 1..Len(speech.sessions) :
        LET calls == CallsOf(s)
            terminals == Positions(calls, {"onResult", "onError"})
            stops == Positions(calls, {"onStop"})
        IN  /\ Concluded(s) =>
                  /\ Cardinality(terminals) = 1
                  /\ Cardinality(stops) = 1
                  /\ \A i \in terminals, j \in stops : i < j
            /\ \A i \in stops, j \in Positions(calls, {"onError"}) : j < i

\* A session that the recognizer refused: onStop was called, then onError,
\* then onStop once more when the session ended.
C20_Witness ==
    /\ Len(speech.sessions) = 1
    /\ speech.sessions[1] = [by |-> "todo", state |-> "ended", terminal |-> "not-allowed"]
    /\ CallsOf(1) = <<"onStop", "onError", "onStop">>

\* What holds of a session that ended after delivering a result: onResult
\* once, then onStop once, when no other session was created beside it.
SessionOrderOfResults ==
    \A s \in 1..Len(speech.sessions) :
        (Len(speech.sessions) = 1 /\ Concluded(s) /\ speech.sessions[s].terminal = "result") =>
            \E before \in {<<>>, <<"onStart">>} : CallsOf(s) = before \o <<"onResult", "onStop">>

----------------------------------------------------------------------------
(* Voice capture: sessions side by side.                                   *)

\* The sessions that were started and have not ended.
ActiveSessions == {s \in 1..Len(speech.sessions) : speech.sessions[s].state # "ended"}

\* C21: at most one capture session is active at any time: a click while a
\* session has been started and has not ended creates no second one.
C21_OneActiveSession == Cardinality(ActiveSessions) <= 1

\* Two clicks on the task mic, the second before the start event of the
\* first recognizer: two recognizers were created and started.
C21_Witness ==
    /\ Len(speech.sessions) = 2
    /\ speech.sessions[1] = [by |-> "todo", state |-> "starting", terminal |-> "none"]
    /\ speech.sessions[2] = [by |-> "todo", state |-> "starting", terminal |-> "none"]
    /\ ~speech.isListening
    /\ speech.log = <<>>

\* C22: every callback made from an event of a session is the callback of
\* the control that started the session: a transcript goes to the store of
\* that control, and onStart / onStop to its button.
C22_TranscriptRouting ==
    \A i \in 1..Len(speech.log) :
        speech.log[i].control = speech.sessions[speech.log[i].session].by

\* A session started from the task mic delivered its transcript after a
\* click on the link mic: the Link Store got it, and the Task Store nothing.
C22_Witness ==
    /\ call = [op |-> "Links.onResult", ret |-> "done", delta |-> 1]
    /\ links # <<>>
    /\ todos = <<>>
    /\ \E i \in 1..Len(speech.log) :
          /\ speech.log[i] = [session |-> 1, callback |-> "onResult", control |-> "link"]
          /\ speech.sessions[1].by = "todo"

\* C23: a session that ends on 'no-speech' calls onStop and never onError; a
\* session that fails with another error calls onError exactly once.
C23_FailureNotification ==
    \A s \in 1..Len(speech.sessions) :
        LET calls == CallsOf(s)
            errors == Positions(calls, {"onError"})
            terminal == speech.sessions[s].terminal
        IN  /\ terminal = "no-speech" =>
                  errors = {} /\ Positions(calls, {"onStop"}) # {}
            /\ terminal \in SpeechErrors \ {"no-speech"} => Cardinality(errors) = 1
            /\ terminal \notin SpeechErrors => errors = {}

\* A session heard nothing and ended: onStop twice, no onError. The session
\* before it was refused and called onError once.
C23_Witness ==
    /\ Len(speech.sessions) = 2
    /\ speech.sessions[1].state = "ended" /\ speech.sessions[1].terminal = "not-allowed"
    /\ speech.sessions[2].state = "ended" /\ speech.sessions[2].terminal = "no-speech"
    /\ CallsOf(1) = <<"onStop", "onError", "onStop">>
    /\ CallsOf(2) = <<"onStart", "onStop", "onStop">>

----------------------------------------------------------------------------
(* Identifiers.                                                            *)

\* No two entries of a sequence of records carry the same id.
DistinctIds(seq) ==
    \A i, j \in 1..Len(seq) : seq[i].id = seq[j].id => i = j

\* C24: the ids of the tasks are pairwise distinct, the ids of the subtasks
\* of one task are pairwise distinct, and the ids of the links are pairwise
\* distinct, also after several adds in the same millisecond.
C24_IdsAreDistinct ==
    /\ DistinctIds(todos)
    /\ \A i \in 1..Len(todos) : DistinctIds(todos[i].subtasks)
    /\ DistinctIds(links)

\* Two tasks added in the same millisecond for which Math.random gave the
\* same five characters: two different tasks under one id, in memory and
\* in storage.
C24_Witness ==
    /\ call = [op |-> "add", ret |-> "done", delta |-> 1]
    /\ Len(todos) = 2
    /\ todos[1].id = todos[2].id
    /\ todos[1].text # todos[2].text
    /\ todos[1].createdAt = todos[2].createdAt
    /\ StoredIs(World, TODOS_KEY, todos)

----------------------------------------------------------------------------
(* Deleting from the list.                                                 *)

\* The delete button of the element of this record was clicked.
DeleteClicked(key, id) == \E e \in removing : e.key = key /\ e.id = id

\* The record is in neither the collection nor the stored collection.
Deleted(key, id) ==
    LET collection == IF key = TODOS_KEY THEN todos ELSE links
    IN  /\ find(collection, id) = 0
        /\ StoredIs(World, key, collection)

\* C25: once the delete button of a displayed task or link is clicked, the
\* record is eventually removed from memory and from storage, whatever is
\* handled before the slide-out animation ends.
C25_DeleteTakesEffect ==
    \A e \in Removable : DeleteClicked(e.key, e.id) ~> Deleted(e.key, e.id)

\* The delete button of a task was clicked and then another task was
\* toggled: the list was rebuilt, the element that was sliding out is out of
\* the document, and the task is still there.
C25_Witness ==
    /\ call = [op |-> "toggle", ret |-> "done", delta |-> 0]
    /\ \E e \in removing :
          /\ e.key = TODOS_KEY /\ ~e.attached
          /\ find(todos, e.id) # 0
          /\ \E i \in 1..Len(todoList) : todoList[i] = e.id
          /\ \A p \in removing : p.attached => p.id # e.id

----------------------------------------------------------------------------
(* Startup.                                                                *)

\* C26: whatever the tasks key and the links key hold (nothing, text that is
\* no JSON, the JSON of null, a number, a string or an object), Todos.init
\* and Links.init complete without throwing, and leave collections on which
\* a later add succeeds.
C26_StartupNeverFatal ==
    phase # "loading" =>
        /\ phase = "ready"
        /\ RoomForRecord =>
              /\ add(World, <<"b">>, NoOpts, "p0a7m").ret = "done"
              /\ Len(add(World, <<"b">>, NoOpts, "p0a7m").todos) = Len(todos) + 1
              /\ Links_add(World, <<"b", ".", "c", "o">>, "p0a7m").ret = "done"
              /\ Len(Links_add(World, <<"b", ".", "c", "o">>, "p0a7m").links) = Len(links) + 1

\* The tasks key held the JSON text of null: Todos.init threw in load, no
\* list was rendered, and Links.init was not called.
C26_Witness ==
    /\ phase = "failed"
    /\ call = [op |-> "init", ret |-> "threw", delta |-> 0]
    /\ localStorage[TODOS_KEY] = <<"json", [type |-> "null"]>>
    /\ localStorage[LINKS_KEY] = Absent
    /\ effects = <<>>
    /\ todos = <<>> /\ todoList = <<>>

----------------------------------------------------------------------------
(* What a task operation leaves alone.                                     *)

\* The Link Store is as it was: the links, and the text under the links key.
LinksKept(w) ==
    /\ w.links = links
    /\ w.localStorage[LINKS_KEY] = localStorage[LINKS_KEY]

\* The operation left the tasks in their places, every task but the i-th as
\* it was, and the i-th as it was in every field but the named one.
OnlyChanged(w, i, field) ==
    /\ Len(w.todos) = Len(todos)
    /\ \A k \in 1..Len(todos) : k # i => w.todos[k] = todos[k]
    /\ DOMAIN w.todos[i] = DOMAIN todos[i]
    /\ \A f \in DOMAIN todos[i] \ {field} : w.todos[i][f] = todos[i][f]
    /\ LinksKept(w)

\* C27: toggle changes only `completed`, update only `text`, and the subtask
\* operations only `subtasks`, of the one task with the id; its id and
\* createdAt, every other task and the order of the tasks stay; and no
\* operation of the Task Store changes the links or the links key.
C27_FrameOfTaskOperations ==
    Ready =>
        /\ \A i \in 1..Len(todos) :
              LET id == todos[i].id
              IN  find(todos, id) = i =>
                    /\ OnlyChanged(toggle(World, id), i, "completed")
                    /\ \A text \in NewTextInputs :
                          OnlyChanged(update(World, id, text), i, "text")
                    /\ \A text \in SubtaskTextInputs, rnd \in Rands :
                          OnlyChanged(addSubtask(World, id, text, rnd), i, "subtasks")
                    /\ \A sub \in SubIds :
                          /\ OnlyChanged(toggleSubtask(World, id, sub), i, "subtasks")
                          /\ OnlyChanged(removeSubtask(World, id, sub), i, "subtasks")
        /\ \A id \in TodoIds : LinksKept(remove(World, id))
        /\ \A in \in AddInputs : LinksKept(add(World, in[1], in[2], in[3]))
        /\ \A filter \in Filters : LinksKept(setFilter(World, filter))
        /\ \A sortKey \in Sorts : LinksKept(setSort(World, sortKey))

\* update renamed the older of two tasks, which had been completed: it is
\* still completed and still second, and the newer task is as it was added.
C27_Witness ==
    /\ call = [op |-> "update", ret |-> "done", delta |-> 0]
    /\ Len(todos) = 2
    /\ todos[1].id # todos[2].id
    /\ todos[1].text = <<"a">> /\ ~todos[1].completed
    /\ todos[2].text = <<"b">> /\ todos[2].completed
    /\ todos[2].priority = "medium" /\ todos[2].createdAt = 0

====
